---- MODULE Spec2Model ----
(***************************************************************************)
(* Verification model of audio2note: the slide-extraction funnel           *)
(* (GPUFrameProcessor.extract_best_shots, OCRDeduper, VideoService) and    *)
(* the task registry / transport around it (task_manager, endpoints).      *)
(* The batch capture of stills (ffmpeg_utils.extract_frames_batch), which  *)
(* the pipeline does not call, has a specification of its own.             *)
(*                                                                         *)
(* Units.  Time is counted in ticks of half a second, so that              *)
(* min_scene_duration = 1.5 s is 3 ticks.  Luminance is counted in         *)
(* hundredths, so that diff_threshold = 0.12 is 12.  A frame is a 1 x 2    *)
(* grayscale image.  A text is a sequence of one-character strings.        *)
(***************************************************************************)
EXTENDS Integers, Sequences, FiniteSets, TLC

\* ------------------------------------------------------------------------
\* Bounds of the model
\* ------------------------------------------------------------------------
MaxTs == 9             \* last decoder position (ticks) a frame may carry
MaxTextLen == 1        \* longest OCR text
MaxCpuReports == 1     \* progress reports of the CPU crop fallback
MaxJobs == 3           \* task ids handled by the transport
MaxBatch == 3          \* longest timestamp list of extract_frames_batch

\* ------------------------------------------------------------------------
\* Program constants
\* ------------------------------------------------------------------------
diff_threshold == 12          \* 0.12, hundredths of full luminance
min_scene_duration == 3       \* 1.5 s, ticks
similarity_threshold == 90    \* 0.90, percent
ProgressEvery == 10           \* L1+L2 progress callback every 10 samples
CpuReportEvery == 100         \* CPU crop progress every 100 frames

\* ------------------------------------------------------------------------
\* Input domains
\* ------------------------------------------------------------------------
PixelLevels == {0, 20}
NumPixels == 2
Frames == [1..NumPixels -> PixelLevels]
Deltas == {1}                         \* tick distance of consecutive frames
FrameSampleIntervals == {1, 2}        \* max(1, int(fps * sample_interval))
Durations == {0, MaxTs}               \* total_frames / fps, 0 if unknown
TotalFramesChoices == {0, 200}        \* CAP_PROP_FRAME_COUNT of the original
Alphabet == {"a", "A", " "}
Texts == UNION {[1..n -> Alphabet] : n \in 0..MaxTextLen}
TaskIds == 1..MaxJobs

Abs(x) == IF x < 0 THEN -x ELSE x
Max(x, y) == IF x > y THEN x ELSE y
Min(x, y) == IF x < y THEN x ELSE y

\* ------------------------------------------------------------------------
\* L1 / L2 kernels (gpu_frame_processor.py)
\* ------------------------------------------------------------------------
\* torch.abs(frame1 - frame2).mean(), times NumPixels (the sum of the
\* absolute differences): compared against diff_threshold * NumPixels.
compute_frame_difference(frame1, frame2) ==
    Abs(frame1[1] - frame2[1]) + Abs(frame1[2] - frame2[2])

\* conv2d of the 1 x 2 image [a b] with the 3x3 Laplacian kernel and zero
\* padding 1 gives [-4a + b, a - 4b]; var() is the unbiased variance of the
\* two values, (x - y)^2 / 2.  The operator returns twice the variance.
compute_laplacian_sharpness(frame) ==
    LET x == frame[2] - 4 * frame[1]
        y == frame[1] - 4 * frame[2]
    IN  (x - y) * (x - y)

\* ------------------------------------------------------------------------
\* L3 text similarity (ocr_deduper.py, difflib.SequenceMatcher)
\* ------------------------------------------------------------------------
\* str.lower() on one character
Lower(c) == IF c = "A" THEN "a" ELSE c

\* "".join(text.lower().split()): lowercase, all whitespace removed
RECURSIVE Clean(_)
Clean(text) ==
    IF text = <<>> THEN <<>>
    ELSE LET c == Lower(Head(text))
         IN  IF c = " " THEN Clean(Tail(text))
             ELSE <<c>> \o Clean(Tail(text))

\* text.strip() = "" : nothing but whitespace
IsBlank(text) == \A i \in 1..Len(text) : text[i] = " "

\* a[i+1 .. i+k] = b[j+1 .. j+k]
BlockMatches(a, b, i, j, k) == \A d \in 1..k : a[i + d] = b[j + d]

\* SequenceMatcher.find_longest_match(alo, ahi, blo, bhi): the longest
\* block a[i:i+k] = b[j:j+k] inside the windows; among the longest the one
\* starting earliest in a, then earliest in b.  Result <<i, j, k>> with
\* 0-based offsets; k = 0 when nothing matches.
find_longest_match(a, b, alo, ahi, blo, bhi) ==
    LET Cands == {t \in (alo..ahi) \X (blo..bhi) \X (1..Max(0, ahi - alo)) :
                     /\ t[1] + t[3] <= ahi
                     /\ t[2] + t[3] <= bhi
                     /\ BlockMatches(a, b, t[1], t[2], t[3])}
    IN  IF Cands = {} THEN <<alo, blo, 0>>
        ELSE CHOOSE t \in Cands :
                \A u \in Cands :
                    \/ t[3] > u[3]
                    \/ t[3] = u[3] /\ t[1] < u[1]
                    \/ t[3] = u[3] /\ t[1] = u[1] /\ t[2] <= u[2]

\* Sum of the sizes of SequenceMatcher.get_matching_blocks(): the longest
\* match, then recursively the pieces to its left and to its right.
RECURSIVE MatchCount(_, _, _, _, _, _)
MatchCount(a, b, alo, ahi, blo, bhi) ==
    LET m == find_longest_match(a, b, alo, ahi, blo, bhi)
    IN  IF m[3] = 0 THEN 0
        ELSE m[3]
             + MatchCount(a, b, alo, m[1], blo, m[2])
             + MatchCount(a, b, m[1] + m[3], ahi, m[2] + m[3], bhi)

\* SequenceMatcher(None, a, b).ratio() = 2.0 * matches / (len(a) + len(b)),
\* 1.0 when both are empty.  Returned as the fraction <<num, den>>.
Ratio(a, b) ==
    IF Len(a) + Len(b) = 0 THEN <<1, 1>>
    ELSE <<2 * MatchCount(a, b, 0, Len(a), 0, Len(b)), Len(a) + Len(b)>>

\* Variant of calculate_similarity without the test for an empty argument
\* of lines 233-236.
compute_similarity_without_empty_test(text1, text2) ==
    Ratio(Clean(text1), Clean(text2))

\* The body of OCRDeduper.calculate_similarity (lines 233-247), as the
\* fraction <<num, den>>
compute_similarity(text1, text2) ==
    IF text1 = <<>> \/ text2 = <<>> THEN <<0, 1>>
    ELSE Ratio(Clean(text1), Clean(text2))

\* compute_similarity of every pair of texts, evaluated once
SimilarityTable ==
    [p \in Texts \X Texts |-> compute_similarity(p[1], p[2])] @@ <<>>

\* OCRDeduper.calculate_similarity, as the fraction <<num, den>>
calculate_similarity(text1, text2) == SimilarityTable[<<text1, text2>>]

\* similarity > self.similarity_threshold
ExceedsThreshold(sim) == sim[1] * 100 > similarity_threshold * sim[2]


\* ------------------------------------------------------------------------
\* State
\* ------------------------------------------------------------------------
VARIABLES
    pc,                          \* position of the job in run_video_task / process
    enable_ppt_extraction,       \* request flags of the job
    enable_audio_transcription,
    tasks,                       \* task_manager.tasks: task id -> record
    status_log,                  \* per task id, the values assigned to "status"
    reporter,                    \* module that made the last progress write
    duration,                    \* total_frames / fps of the analysed video
    frame_sample_interval,
    pos_msec,                    \* cap.get(CAP_PROP_POS_MSEC), ticks
    frame_idx,
    sampled_count,
    prev_tensor,
    scene_start_ts,
    scene_best_ts,
    scene_best_frame_idx,
    scene_best_sharpness,
    shot,                        \* the BestShot handed to the consumer
    gen_finished,                \* the generator has left its read loop
    last_saved_text,             \* OCRDeduper._last_saved_text
    processed_shots,
    saved_count,
    prs_slides,                  \* the Presentation: image index of each slide
    retained_ts,                 \* BestShot timestamp of the frame saved last
    retained_text,               \* OCR text of the frame saved last
    l3_result,                   \* (is_duplicate, text) of the L3 check just
                                 \* made; dead once the iteration is over
    ppt_images,                  \* indices of the slide_NNNN.jpg files written
    pptx_saved,                  \* <guid>.pptx exists
    ppt_path,                    \* process(): ppt_path
    transcript_path,             \* process(): transcript_path
    cpu_frame_idx,               \* _crop_video_cpu_fallback: frame_idx
    total_frames,                \* CAP_PROP_FRAME_COUNT of the original video
    error,                       \* message of the exception in flight
    complete_calls,              \* calls of complete_task by run_video_task
    fail_calls,                  \* calls of fail_task by run_video_task
    temp_file,                   \* the uploaded temporary video exists
    jobs,                        \* per task id, the background run of the upload
    response,                    \* status code of the last upload response
    cropped_video,               \* <guid>_cropped.mp4 exists
    debug_images,                \* the locator wrote files to debug_images/
    caught,                      \* _crop_video_ffmpeg: why the NVENC encode
                                 \* handed over to the CPU fallback
    timestamps,                  \* extract_frames_batch: timestamps
    results,                     \* extract_frames_batch: results
    attempted,                   \* timestamps handed to
                                 \* extract_frame_at_timestamp so far
    video,                       \* the frames of the analysed video, where
                                 \* they are fixed before the capture opens
    sim_text1,                   \* calculate_similarity: argument text1
    sim_text2,                   \* calculate_similarity: argument text2
    similarity,                  \* calculate_similarity: the value returned
    funnel_pass,                 \* passes of the L3 loop on one OCRDeduper
    capture,                     \* the read of a BestShot's original frame
    crop_box,                    \* an ROI and the crop filters built from it
    registry_call,               \* the last call made on the task registry
    deletion,                    \* a call of secure_delete
    keyframes,                   \* extract_key_frames_persistent_reference
    cropper                      \* runs of crop_ppt.process_video

vars == <<pc, enable_ppt_extraction, enable_audio_transcription, tasks,
          status_log, reporter, duration, frame_sample_interval, pos_msec,
          frame_idx, sampled_count, prev_tensor, scene_start_ts,
          scene_best_ts, scene_best_frame_idx, scene_best_sharpness, shot,
          gen_finished, last_saved_text, processed_shots, saved_count,
          prs_slides, retained_ts, retained_text, l3_result, ppt_images,
          pptx_saved, ppt_path, transcript_path, cpu_frame_idx,
          total_frames, error, complete_calls, fail_calls, temp_file, jobs,
          response, cropped_video, debug_images, caught, timestamps, results,
          attempted, video, sim_text1, sim_text2, similarity, funnel_pass,
          capture, crop_box, registry_call, deletion, keyframes, cropper>>

genVars == <<pos_msec, frame_idx, sampled_count, prev_tensor, scene_start_ts,
             scene_best_ts, scene_best_frame_idx, scene_best_sharpness>>
l3Vars == <<last_saved_text, saved_count, prs_slides, retained_ts,
           retained_text, ppt_images>>
\* the request and the video of the job, and the transport around it
flagVars == <<enable_ppt_extraction, enable_audio_transcription, duration,
              frame_sample_interval, jobs, response, video>>
resultVars == <<pptx_saved, ppt_path, transcript_path, error, complete_calls,
                fail_calls, temp_file>>
regVars == <<tasks, status_log, reporter>>
cpuVars == <<cpu_frame_idx, total_frames>>
\* files the slide-extraction stages leave in the output directory
fileVars == <<cropped_video, debug_images, caught>>
\* the locals of extract_frames_batch
batchVars == <<timestamps, results, attempted>>
\* the arguments and the result of a call of calculate_similarity
simVars == <<sim_text1, sim_text2, similarity>>
\* the state of the functions that run outside a job, one record each
toolVars == <<funnel_pass, capture, crop_box, registry_call, deletion,
              keyframes, cropper>>

\* ------------------------------------------------------------------------
\* Task registry (task_manager.py)
\* ------------------------------------------------------------------------
PENDING == "pending"
PROCESSING == "processing"
COMPLETED == "completed"
FAILED == "failed"
TaskStatus == {PENDING, PROCESSING, COMPLETED, FAILED}

None == "None"
NoneText == <<"None">>      \* _last_saved_text is None
NoTensor == <<>>            \* prev_tensor is None
NoResult == [dup |-> FALSE, text |-> NoneText]   \* no L3 check made
NoShot == [timestamp |-> -1, frame_index |-> -1, sharpness_score |-> -1,
           scene_start_ts |-> -1, scene_end_ts |-> -1]

\* init_task: the record of a new task
init_task ==
    [status |-> PENDING, progress |-> 0, message |-> "init",
     result_url |-> None, transcript_url |-> None, error |-> None]

\* Variant of update_task_progress that writes the progress into every
\* record of the registry instead of the one of task_id.
update_task_progress_every_task(reg, task_id, progress, message) ==
    IF task_id \notin DOMAIN reg THEN reg
    ELSE [i \in DOMAIN reg |->
             [reg[i] EXCEPT !.progress = progress,
                            !.message = message,
                            !.status = IF @ = PENDING THEN PROCESSING ELSE @]]

\* update_task_progress(task_id, progress, message) with status = None
update_task_progress(reg, task_id, progress, message) ==
    IF task_id \notin DOMAIN reg THEN reg
    ELSE [reg EXCEPT ![task_id] =
             [@ EXCEPT !.progress = progress,
                       !.message = message,
                       !.status = IF @ = PENDING THEN PROCESSING ELSE @]]

\* Variant of complete_task that leaves the progress where the last
\* progress write put it.
complete_task_keeps_progress(reg, task_id, result_url, transcript_url) ==
    IF task_id \notin DOMAIN reg THEN reg
    ELSE [reg EXCEPT ![task_id] =
             [@ EXCEPT !.status = COMPLETED,
                       !.message = "done",
                       !.result_url = result_url,
                       !.transcript_url =
                           IF transcript_url # None THEN transcript_url ELSE @]]

\* complete_task(task_id, result_url, transcript_url)
complete_task(reg, task_id, result_url, transcript_url) ==
    IF task_id \notin DOMAIN reg THEN reg
    ELSE [reg EXCEPT ![task_id] =
             [@ EXCEPT !.status = COMPLETED,
                       !.progress = 100,
                       !.message = "done",
                       !.result_url = result_url,
                       !.transcript_url =
                           IF transcript_url # None THEN transcript_url ELSE @]]

\* Variant of fail_task that makes a record for a task id the registry
\* does not hold.
fail_task_creates_record(reg, task_id, error_msg) ==
    LET known == IF task_id \in DOMAIN reg THEN reg
                 ELSE (task_id :> init_task) @@ reg
    IN  [known EXCEPT ![task_id] =
             [@ EXCEPT !.status = FAILED,
                       !.error = error_msg,
                       !.message = error_msg]]

\* Variant of fail_task that records the error but leaves the status
\* field alone.
fail_task_keeps_status(reg, task_id, error_msg) ==
    IF task_id \notin DOMAIN reg THEN reg
    ELSE [reg EXCEPT ![task_id] =
             [@ EXCEPT !.error = error_msg,
                       !.message = error_msg]]

\* fail_task(task_id, error_msg)
fail_task(reg, task_id, error_msg) ==
    IF task_id \notin DOMAIN reg THEN reg
    ELSE [reg EXCEPT ![task_id] =
             [@ EXCEPT !.status = FAILED,
                       !.error = error_msg,
                       !.message = error_msg]]

\* The value a call assigned to the status field of task_id, appended to
\* the log of that task (nothing is appended when the call left the field
\* alone).
Logged(log, task_id, assigned) ==
    IF assigned = None THEN log
    ELSE [log EXCEPT ![task_id] = Append(@, assigned)]

\* The status update_task_progress assigns, None when it assigns none
ProgressAssigns(reg, task_id) ==
    IF task_id \in DOMAIN reg /\ reg[task_id].status = PENDING
    THEN PROCESSING ELSE None

Job == 1        \* the task id of the job the pipeline runs

\* A progress write of the pipeline
Report(who, progress, message) ==
    /\ tasks' = update_task_progress(tasks, Job, progress, message)
    /\ status_log' = Logged(status_log, Job, ProgressAssigns(tasks, Job))
    /\ reporter' = who


\* ------------------------------------------------------------------------
\* VideoService.process: slide extraction up to the funnel
\* ------------------------------------------------------------------------
\* Lines 139-157: progress 5, then _locate_ppt_region; no rectangle raises
\* ValueError.  The locator writes its debug images for every sample frame
\* it can read (lines 279-292), so a located region leaves them on disk and
\* a failed search may.
LocateRegion ==
    /\ pc = "process"
    /\ enable_ppt_extraction
    /\ Report("ppt", 5, "locating")
    /\ \E found \in BOOLEAN, sampled \in BOOLEAN :
          IF found
          THEN pc' = "crop" /\ error' = error /\ debug_images' = TRUE
          ELSE pc' = "raised" /\ error' = "roi_not_found"
                              /\ debug_images' = sampled
    /\ UNCHANGED l3_result
    /\ UNCHANGED <<genVars, l3Vars, flagVars, batchVars, simVars, toolVars, shot, gen_finished,
                   processed_shots, pptx_saved, ppt_path, transcript_path,
                   cpuVars, complete_calls, fail_calls, temp_file,
                   cropped_video, caught>>

\* Line 139 with slide extraction disabled: straight to line 188.
SkipExtraction ==
    /\ pc = "process"
    /\ ~enable_ppt_extraction
    /\ pc' = "transcribe"
    /\ UNCHANGED l3_result
    /\ UNCHANGED <<genVars, l3Vars, flagVars, fileVars, batchVars, simVars, toolVars, regVars,
                   resultVars, shot, gen_finished, processed_shots, cpuVars>>

\* Lines 160-167 and _crop_video_ffmpeg: progress 10, then the NVENC
\* encode.  A nonzero exit (lines 463-472) and a missing ffmpeg (lines
\* 481-484) both fall back to the CPU crop; any other exception returns
\* None (lines 485-487), which process turns into ValueError.  An encode
\* that fails after it started may leave a file at the output path.
CropNvenc ==
    /\ pc = "crop"
    /\ Report("ppt", 10, "cropping")
    /\ \E outcome \in {"ok", "nonzero_exit", "not_installed", "exception"},
          left \in BOOLEAN :
          CASE outcome = "ok" ->
                  /\ pc' = "funnel" /\ error' = error
                  /\ cropped_video' = TRUE /\ caught' = None
            [] outcome = "nonzero_exit" ->
                  /\ pc' = "cpu_crop" /\ error' = error
                  /\ cropped_video' = left /\ caught' = "nonzero_exit"
            [] outcome = "not_installed" ->
                  /\ pc' = "cpu_crop" /\ error' = error
                  /\ cropped_video' = FALSE /\ caught' = "FileNotFoundError"
            [] OTHER ->
                  /\ pc' = "raised" /\ error' = "crop_failed"
                  /\ cropped_video' = left /\ caught' = None
    /\ UNCHANGED l3_result
    /\ UNCHANGED <<genVars, l3Vars, flagVars, batchVars, simVars, toolVars, shot, gen_finished,
                   processed_shots, pptx_saved, ppt_path, transcript_path,
                   cpuVars, complete_calls, fail_calls, temp_file,
                   debug_images>>

\* _crop_video_cpu_fallback lines 507-517: the capture is opened and the
\* frame count read; a capture that does not open returns None.  The
\* VideoWriter of line 517 is not asked whether it opened: one that did
\* has created the output file, one that did not leaves the path as it
\* was.
CpuCropOpen ==
    /\ pc = "cpu_crop"
    /\ \E opened \in BOOLEAN, total \in TotalFramesChoices,
          writer_opened \in BOOLEAN :
          IF opened
          THEN /\ pc' = "cpu_loop" /\ total_frames' = total
               /\ error' = error /\ caught' = caught
               /\ cropped_video' = (writer_opened \/ cropped_video)
          ELSE /\ pc' = "raised" /\ total_frames' = total_frames
               /\ error' = "crop_failed" /\ caught' = None
               /\ cropped_video' = cropped_video
    /\ UNCHANGED l3_result
    /\ UNCHANGED <<genVars, l3Vars, regVars, flagVars, batchVars, simVars, toolVars, shot,
                   gen_finished, processed_shots, pptx_saved, ppt_path,
                   transcript_path, cpu_frame_idx, complete_calls,
                   fail_calls, temp_file, debug_images>>

\* Lines 520-538: another CpuReportEvery frames are cropped, then the
\* progress is reported as min(30, 10 + int(frame_idx / total_frames * 20));
\* total_frames = 0 raises ZeroDivisionError, which leaves process with the
\* writer never released.
CpuCropReport ==
    /\ pc = "cpu_loop"
    /\ cpu_frame_idx < MaxCpuReports * CpuReportEvery
    /\ LET idx == cpu_frame_idx + CpuReportEvery
       IN  IF total_frames = 0
           THEN /\ pc' = "raised"
                /\ error' = "division_by_zero"
                /\ cpu_frame_idx' = 0
                /\ total_frames' = 0
                /\ caught' = None
                /\ UNCHANGED <<cropped_video, regVars>>
           ELSE /\ pc' = pc
                /\ error' = error
                /\ cpu_frame_idx' = idx
                /\ total_frames' = total_frames
                /\ UNCHANGED <<caught, cropped_video>>
                /\ Report("ppt", Min(30, 10 + (idx * 20) \div total_frames),
                          "cpu_cropping")
    /\ UNCHANGED l3_result
    /\ UNCHANGED <<genVars, l3Vars, flagVars, batchVars, simVars, toolVars, shot, gen_finished,
                   processed_shots, pptx_saved, ppt_path, transcript_path,
                   complete_calls, fail_calls, temp_file, debug_images>>

\* Lines 520-523, 540-542: the capture is exhausted, the writer released
\* and the output path returned, whatever the writer did (the locals of
\* the fallback and of _crop_video_ffmpeg go out of scope).
CpuCropDone ==
    /\ pc = "cpu_loop"
    /\ pc' = "funnel"
    /\ cpu_frame_idx' = 0
    /\ total_frames' = 0
    /\ caught' = None
    /\ UNCHANGED l3_result
    /\ UNCHANGED <<genVars, l3Vars, regVars, resultVars, flagVars, batchVars, simVars, toolVars,
                   shot, gen_finished, processed_shots, debug_images,
                   cropped_video>>


\* ------------------------------------------------------------------------
\* The funnel: GPUFrameProcessor.extract_best_shots (L1 + L2), consumed by
\* VideoService._extract_ppt_gpu_pipeline (L3)
\* ------------------------------------------------------------------------
\* Variant of OCRDeduper.reset that leaves the memory as it is.
reset_keeps_memory == funnel_pass.last_saved_text

\* OCRDeduper.reset
reset == NoneText

\* OCRDeduper.mark_as_saved(text): the new _last_saved_text
mark_as_saved(text) == text

\* Variant of is_duplicate that compares the texts as the OCR returned
\* them, without the normalisation of calculate_similarity.
is_duplicate_raw(memory, current_text) ==
    IF memory = NoneText
    THEN [dup |-> FALSE, memory |-> current_text]
    ELSE LET is_dup == ExceedsThreshold(Ratio(memory, current_text))
         IN  [dup |-> is_dup,
              memory |-> IF is_dup THEN memory ELSE current_text]

\* Variant of is_duplicate that remembers every candidate, the discarded
\* ones included.
is_duplicate_tracks_candidate(memory, current_text) ==
    IF memory = NoneText
    THEN [dup |-> FALSE, memory |-> current_text]
    ELSE [dup |-> ExceedsThreshold(calculate_similarity(memory,
                                                        current_text)),
          memory |-> current_text]

\* OCRDeduper.is_duplicate on the OCR text of the frame: the verdict and the
\* _last_saved_text it leaves behind.
is_duplicate(memory, current_text) ==
    IF memory = NoneText
    THEN [dup |-> FALSE, memory |-> current_text]
    ELSE LET is_dup ==
                 ExceedsThreshold(calculate_similarity(memory, current_text))
         IN  [dup |-> is_dup,
              memory |-> IF is_dup THEN memory ELSE current_text]

\* Positions cap.get(CAP_PROP_POS_MSEC) may report after a read that
\* returned no frame: the last frame's, or 0.
FinalPositions(pos) == {0, pos}

\* Lines 578-603 and 248-277: the deduper is reset, the counters cleared,
\* the capture of the analysed video opened.  A capture that does not open
\* (no file at the path is one reason) ends the generator without a
\* BestShot.
FunnelOpen ==
    /\ pc = "funnel"
    /\ last_saved_text' = reset
    /\ saved_count' = 0
    /\ processed_shots' = 0
    /\ \E opened \in BOOLEAN :
          /\ opened => cropped_video
          /\ IF opened
             THEN pc' = "read" /\ gen_finished' = FALSE
             ELSE pc' = "funnel_end" /\ gen_finished' = TRUE
    /\ prev_tensor' = NoTensor
    /\ scene_start_ts' = 0
    /\ scene_best_ts' = 0
    /\ scene_best_frame_idx' = 0
    /\ scene_best_sharpness' = -1
    /\ frame_idx' = 0
    /\ sampled_count' = 0
    /\ UNCHANGED <<pos_msec, prs_slides, retained_ts, retained_text,
                   l3_result, ppt_images, flagVars, fileVars, batchVars, simVars, toolVars, regVars,
                   resultVars, shot, cpuVars>>

\* progress_callback of _extract_ppt_gpu_pipeline (lines 591-594) applied
\* to the percent of extract_best_shots (lines 297-299).
L1L2Progress(count, current_ts) ==
    IF count % ProgressEvery = 0
    THEN LET percent == IF duration > 0
                        THEN (current_ts * 100) \div duration ELSE 0
         IN  Report("ppt", 30 + (percent * 4) \div 10, "l1l2")
    ELSE UNCHANGED regVars

\* The decoder delivers a frame: the first frame sits at position 0, every
\* other one its tick distance after the frame before it.
Decoded(delta) ==
    /\ delta \in (IF frame_idx = 0 THEN {0} ELSE Deltas)
    /\ pos_msec + delta <= MaxTs
    /\ pos_msec' = pos_msec + delta

\* Lines 280-287: a frame that is not a sampling point is dropped.
ReadSkipped ==
    /\ pc = "read"
    /\ frame_idx % frame_sample_interval # 0
    /\ \E delta \in Deltas : Decoded(delta)
    /\ frame_idx' = frame_idx + 1
    /\ l3_result' = NoResult
    /\ UNCHANGED <<sampled_count, prev_tensor, scene_start_ts, scene_best_ts,
                   scene_best_frame_idx, scene_best_sharpness, l3Vars,
                   flagVars, fileVars, batchVars, simVars, toolVars, regVars, resultVars, shot, gen_finished,
                   processed_shots, cpuVars, pc>>

\* Lines 289-314: the first sampled frame opens the first scene.
ReadFirst ==
    /\ pc = "read"
    /\ frame_idx % frame_sample_interval = 0
    /\ prev_tensor = NoTensor
    /\ \E frame \in Frames :
          /\ Decoded(0)
          /\ L1L2Progress(sampled_count + 1, pos_msec')
          /\ prev_tensor' = frame
          /\ scene_best_sharpness' = compute_laplacian_sharpness(frame)
          /\ scene_best_ts' = pos_msec'
    /\ scene_best_frame_idx' = frame_idx
    /\ sampled_count' = sampled_count + 1
    /\ frame_idx' = frame_idx + 1
    /\ l3_result' = NoResult
    /\ UNCHANGED <<scene_start_ts, l3Vars, flagVars, fileVars, batchVars, simVars, toolVars, resultVars, shot,
                   gen_finished, processed_shots, cpuVars, pc>>

\* Variant of the scene test that takes any difference for a scene change.
SceneChangesAtAnyDifference(frame) ==
    compute_frame_difference(prev_tensor, frame) > 0

\* diff > self.diff_threshold
SceneChanges(frame) ==
    compute_frame_difference(prev_tensor, frame) > diff_threshold * NumPixels

\* Variant of the scene reset that forgets to move the best timestamp to
\* the frame that opens the new scene.
ResetSceneKeepsBestTs(frame, current_ts) ==
    /\ scene_start_ts' = current_ts
    /\ scene_best_sharpness' = compute_laplacian_sharpness(frame)
    /\ scene_best_ts' = scene_best_ts
    /\ scene_best_frame_idx' = frame_idx

\* Variant of the scene reset that keeps the best sharpness of the scene
\* just closed.
ResetSceneKeepsSharpness(frame, current_ts) ==
    /\ scene_start_ts' = current_ts
    /\ scene_best_sharpness' = scene_best_sharpness
    /\ scene_best_ts' = current_ts
    /\ scene_best_frame_idx' = frame_idx

\* Lines 342-346: the frame that closed a scene opens the next one.
ResetScene(frame, current_ts) ==
    /\ scene_start_ts' = current_ts
    /\ scene_best_sharpness' = compute_laplacian_sharpness(frame)
    /\ scene_best_ts' = current_ts
    /\ scene_best_frame_idx' = frame_idx

\* Variant of the mid-stream yield in which the generator does not wait for
\* the consumer: it hands out the BestShot and goes on reading.
ReadSceneChangeYieldEager ==
    /\ pc = "read"
    /\ frame_idx % frame_sample_interval = 0
    /\ prev_tensor # NoTensor
    /\ \E delta \in Deltas, frame \in Frames :
          /\ Decoded(delta)
          /\ SceneChanges(frame)
          /\ pos_msec' - scene_start_ts >= min_scene_duration
          /\ L1L2Progress(sampled_count + 1, pos_msec')
          /\ shot' = [timestamp |-> scene_best_ts,
                      frame_index |-> scene_best_frame_idx,
                      sharpness_score |-> scene_best_sharpness,
                      scene_start_ts |-> scene_start_ts,
                      scene_end_ts |-> pos_msec']
          /\ ResetScene(frame, pos_msec')
          /\ prev_tensor' = frame
    /\ pc' = "read"
    /\ sampled_count' = sampled_count + 1
    /\ frame_idx' = frame_idx + 1
    /\ l3_result' = NoResult
    /\ UNCHANGED <<l3Vars, flagVars, fileVars, batchVars, simVars, toolVars, resultVars, gen_finished,
                   processed_shots, cpuVars>>

\* Lines 320-336, 342-355: the scene changes and the closed scene lasted
\* long enough: its BestShot is yielded.
ReadSceneChangeYield ==
    /\ pc = "read"
    /\ frame_idx % frame_sample_interval = 0
    /\ prev_tensor # NoTensor
    /\ \E delta \in Deltas, frame \in Frames :
          /\ Decoded(delta)
          /\ SceneChanges(frame)
          /\ pos_msec' - scene_start_ts >= min_scene_duration
          /\ L1L2Progress(sampled_count + 1, pos_msec')
          /\ shot' = [timestamp |-> scene_best_ts,
                      frame_index |-> scene_best_frame_idx,
                      sharpness_score |-> scene_best_sharpness,
                      scene_start_ts |-> scene_start_ts,
                      scene_end_ts |-> pos_msec']
          /\ ResetScene(frame, pos_msec')
          /\ prev_tensor' = frame
    /\ pc' = "l3"
    /\ sampled_count' = sampled_count + 1
    /\ frame_idx' = frame_idx + 1
    /\ l3_result' = NoResult
    /\ UNCHANGED <<l3Vars, flagVars, fileVars, batchVars, simVars, toolVars, resultVars, gen_finished,
                   processed_shots, cpuVars>>

\* Lines 320-324, 337-346: the scene changes but the closed scene was too
\* short: it is dropped.
ReadSceneChangeDiscard ==
    /\ pc = "read"
    /\ frame_idx % frame_sample_interval = 0
    /\ prev_tensor # NoTensor
    /\ \E delta \in Deltas, frame \in Frames :
          /\ Decoded(delta)
          /\ SceneChanges(frame)
          /\ pos_msec' - scene_start_ts < min_scene_duration
          /\ L1L2Progress(sampled_count + 1, pos_msec')
          /\ ResetScene(frame, pos_msec')
          /\ prev_tensor' = frame
    /\ sampled_count' = sampled_count + 1
    /\ frame_idx' = frame_idx + 1
    /\ l3_result' = NoResult
    /\ UNCHANGED <<l3Vars, flagVars, fileVars, batchVars, simVars, toolVars, resultVars, shot, gen_finished,
                   processed_shots, cpuVars, pc>>

\* Variant of the same-scene branch that also replaces the best frame by a
\* frame that is exactly as sharp.
ReadSameSceneKeepsLatest ==
    /\ pc = "read"
    /\ frame_idx % frame_sample_interval = 0
    /\ prev_tensor # NoTensor
    /\ \E delta \in Deltas, frame \in Frames :
          /\ Decoded(delta)
          /\ ~SceneChanges(frame)
          /\ L1L2Progress(sampled_count + 1, pos_msec')
          /\ LET sharpness == compute_laplacian_sharpness(frame)
             IN  IF sharpness >= scene_best_sharpness
                 THEN /\ scene_best_sharpness' = sharpness
                      /\ scene_best_ts' = pos_msec'
                      /\ scene_best_frame_idx' = frame_idx
                 ELSE UNCHANGED <<scene_best_sharpness, scene_best_ts,
                                  scene_best_frame_idx>>
          /\ prev_tensor' = frame
    /\ sampled_count' = sampled_count + 1
    /\ frame_idx' = frame_idx + 1
    /\ l3_result' = NoResult
    /\ UNCHANGED <<scene_start_ts, l3Vars, flagVars, fileVars, batchVars, simVars, toolVars, resultVars, shot,
                   gen_finished, processed_shots, cpuVars, pc>>

\* Lines 347-355: the frame belongs to the open scene; it becomes the best
\* frame if it is strictly sharper.
ReadSameScene ==
    /\ pc = "read"
    /\ frame_idx % frame_sample_interval = 0
    /\ prev_tensor # NoTensor
    /\ \E delta \in Deltas, frame \in Frames :
          /\ Decoded(delta)
          /\ ~SceneChanges(frame)
          /\ L1L2Progress(sampled_count + 1, pos_msec')
          /\ LET sharpness == compute_laplacian_sharpness(frame)
             IN  IF sharpness > scene_best_sharpness
                 THEN /\ scene_best_sharpness' = sharpness
                      /\ scene_best_ts' = pos_msec'
                      /\ scene_best_frame_idx' = frame_idx
                 ELSE UNCHANGED <<scene_best_sharpness, scene_best_ts,
                                  scene_best_frame_idx>>
          /\ prev_tensor' = frame
    /\ sampled_count' = sampled_count + 1
    /\ frame_idx' = frame_idx + 1
    /\ l3_result' = NoResult
    /\ UNCHANGED <<scene_start_ts, l3Vars, flagVars, fileVars, batchVars, simVars, toolVars, resultVars, shot,
                   gen_finished, processed_shots, cpuVars, pc>>

\* The locals of extract_best_shots before its first frame (lines 264-277).
\* The generator reads none of them again once the stream is exhausted.
GeneratorIdle ==
    /\ pos_msec' = 0
    /\ frame_idx' = 0
    /\ sampled_count' = 0
    /\ prev_tensor' = NoTensor
    /\ scene_start_ts' = 0
    /\ scene_best_ts' = 0
    /\ scene_best_frame_idx' = 0
    /\ scene_best_sharpness' = -1

\* Line 359: the duration of the terminal scene
FinalSceneDuration(final_ts) ==
    IF final_ts > scene_start_ts
    THEN final_ts - scene_start_ts
    ELSE duration - scene_start_ts

\* Lines 280-282, 357-372: the stream is exhausted and the terminal scene
\* passes the duration test: its BestShot is yielded.
EndOfStreamYield ==
    /\ pc = "read"
    /\ \E final_ts \in FinalPositions(pos_msec) :
          /\ FinalSceneDuration(final_ts) >= min_scene_duration
          /\ shot' = [timestamp |-> scene_best_ts,
                      frame_index |-> scene_best_frame_idx,
                      sharpness_score |-> scene_best_sharpness,
                      scene_start_ts |-> scene_start_ts,
                      scene_end_ts |-> final_ts]
    /\ pc' = "l3"
    /\ gen_finished' = TRUE
    /\ GeneratorIdle
    /\ l3_result' = NoResult
    /\ UNCHANGED <<l3Vars, flagVars, fileVars, batchVars, simVars, toolVars, regVars, resultVars, processed_shots,
                   cpuVars>>

\* Lines 280-282, 357-361, 374: the stream is exhausted and the terminal
\* scene is too short: the generator ends.
EndOfStreamDrop ==
    /\ pc = "read"
    /\ \E final_ts \in FinalPositions(pos_msec) :
          FinalSceneDuration(final_ts) < min_scene_duration
    /\ pc' = "funnel_end"
    /\ gen_finished' = TRUE
    /\ GeneratorIdle
    /\ l3_result' = NoResult
    /\ UNCHANGED <<l3Vars, flagVars, fileVars, batchVars, simVars, toolVars, regVars, resultVars, shot,
                   processed_shots, cpuVars>>

\* Where the consumer's loop goes after a BestShot: back into the
\* generator, or out of the loop when the generator has ended.
AfterShot == IF gen_finished THEN "funnel_end" ELSE "read"

\* Lines 604-619: the frame of the original video cannot be read; the
\* BestShot is skipped before L3.
L3FrameMissing ==
    /\ pc = "l3"
    /\ processed_shots' = processed_shots + 1
    /\ pc' = AfterShot
    /\ shot' = NoShot
    /\ l3_result' = NoResult
    /\ UNCHANGED <<genVars, last_saved_text, saved_count, prs_slides,
                   retained_ts, retained_text, ppt_images, flagVars, fileVars, batchVars, simVars, toolVars, regVars,
                   resultVars, gen_finished, cpuVars>>

\* 70 + int((processed_shots / max(processed_shots, 1)) * 20), line 624
L3Percent(n) == 70 + (n \div Max(n, 1)) * 20

\* Lines 604-632: progress, OCR, and the candidate is a duplicate.
L3Duplicate ==
    /\ pc = "l3"
    /\ processed_shots' = processed_shots + 1
    /\ Report("ppt", L3Percent(processed_shots'), "ocr")
    /\ \E text \in Texts :
          LET r == is_duplicate(last_saved_text, text)
          IN  /\ r.dup
              /\ last_saved_text' = r.memory
              /\ l3_result' = [dup |-> r.dup, text |-> text]
    /\ pc' = AfterShot
    /\ shot' = NoShot
    /\ UNCHANGED <<genVars, saved_count, prs_slides, retained_ts,
                   retained_text, ppt_images, flagVars, fileVars, batchVars, simVars, toolVars,
                   resultVars, gen_finished, cpuVars>>

\* Variant of _save_frame_to_ppt that numbers the image files from 1.
SaveFrameToPptOneBased(timestamp, text, index) ==
    /\ ppt_images' = ppt_images \cup {index + 1}
    /\ prs_slides' = Append(prs_slides, index + 1)
    /\ retained_ts' = timestamp
    /\ retained_text' = text

\* _save_frame_to_ppt(frame, prs, index): slide_<index>.jpg is written and
\* a slide showing that file appended to the presentation.  The saved frame
\* is known by the timestamp of its BestShot and the text the OCR read.
SaveFrameToPpt(timestamp, text, index) ==
    /\ ppt_images' = ppt_images \cup {index}
    /\ prs_slides' = Append(prs_slides, index)
    /\ retained_ts' = timestamp
    /\ retained_text' = text

\* Lines 604-642: progress, OCR, the candidate is new: it is saved as the
\* next slide and its text becomes the memory.
L3Retain ==
    /\ pc = "l3"
    /\ processed_shots' = processed_shots + 1
    /\ Report("ppt", L3Percent(processed_shots'), "ocr")
    /\ \E text \in Texts :
          LET r == is_duplicate(last_saved_text, text)
          IN  /\ ~r.dup
              /\ l3_result' = [dup |-> r.dup, text |-> text]
              /\ SaveFrameToPpt(shot.timestamp, text, saved_count)
              /\ last_saved_text' = mark_as_saved(text)
    /\ saved_count' = saved_count + 1
    /\ pc' = AfterShot
    /\ shot' = NoShot
    /\ UNCHANGED <<genVars, flagVars, fileVars, batchVars, simVars, toolVars, resultVars, gen_finished,
                   cpuVars>>

\* Lines 644-651, 180-184: the loop is over; the presentation is saved if
\* it has a slide.
FunnelFinish ==
    /\ pc = "funnel_end"
    /\ IF saved_count > 0
       THEN pptx_saved' = TRUE /\ ppt_path' = "pptx"
       ELSE pptx_saved' = pptx_saved /\ ppt_path' = None
    /\ pc' = IF enable_audio_transcription THEN "transcribe" ELSE "return"
    /\ l3_result' = NoResult
    /\ UNCHANGED <<genVars, l3Vars, flagVars, fileVars, batchVars, simVars, toolVars, regVars, shot, gen_finished,
                   processed_shots, transcript_path, error, complete_calls,
                   fail_calls, temp_file, cpuVars>>


\* ------------------------------------------------------------------------
\* VideoService.process: transcription; run_video_task: result handling
\* ------------------------------------------------------------------------
\* Variant of the transcription module without the try/except of lines
\* 202-216: an exception of the transcriber leaves process.
TranscribePropagates ==
    /\ pc = "transcribe"
    /\ Report("audio", (IF enable_ppt_extraction THEN 85 ELSE 0) + 5, "asr")
    /\ \E outcome \in {"text", "empty", "exception"} :
          /\ transcript_path' = IF outcome = "text" THEN "txt" ELSE None
          /\ IF outcome = "exception"
             THEN pc' = "raised" /\ error' = "asr_failed"
             ELSE pc' = "return" /\ error' = error
    /\ UNCHANGED l3_result
    /\ UNCHANGED <<genVars, l3Vars, flagVars, fileVars, batchVars, simVars, toolVars, shot,
                   gen_finished, processed_shots, pptx_saved, ppt_path,
                   complete_calls, fail_calls, temp_file, cpuVars>>

\* Lines 188-216: progress audio_progress_start + 5, then the transcriber.
\* An empty text and an exception both leave transcript_path None.
Transcribe ==
    /\ pc = "transcribe"
    /\ Report("audio", (IF enable_ppt_extraction THEN 85 ELSE 0) + 5, "asr")
    /\ \E outcome \in {"text", "empty", "exception"} :
          transcript_path' = IF outcome = "text" THEN "txt" ELSE None
    /\ pc' = "return"
    /\ UNCHANGED l3_result
    /\ UNCHANGED <<genVars, l3Vars, flagVars, fileVars, batchVars, simVars, toolVars, shot, gen_finished,
                   processed_shots, pptx_saved, ppt_path, error,
                   complete_calls, fail_calls, temp_file, cpuVars>>

\* Variant of the result that names the cropped video whether or not slide
\* extraction ran.
ProcessResultAlwaysCropped ==
    [guid |-> Job,
     cropped_video |-> "cropped_mp4",
     ppt_file |-> ppt_path,
     transcript_file |-> transcript_path]

\* Lines 219-224: the dict process returns, built from its locals once the
\* modules have run.
ProcessResult ==
    [guid |-> Job,
     cropped_video |-> IF enable_ppt_extraction THEN "cropped_mp4" ELSE None,
     ppt_file |-> ppt_path,
     transcript_file |-> transcript_path]

\* endpoints.py lines 84-101: process returned a deliverable.
CompleteJob ==
    /\ pc = "return"
    /\ ppt_path # None \/ transcript_path # None
    /\ tasks' = complete_task(tasks, Job,
                              IF ppt_path # None THEN "ppt_url" ELSE None,
                              IF transcript_path # None
                              THEN "transcript_url" ELSE None)
    /\ status_log' = Logged(status_log, Job, COMPLETED)
    /\ reporter' = "transport"
    /\ complete_calls' = complete_calls + 1
    /\ pc' = "finally"
    /\ UNCHANGED l3_result
    /\ UNCHANGED <<genVars, l3Vars, flagVars, fileVars, batchVars, simVars, toolVars, shot, gen_finished,
                   processed_shots, pptx_saved, ppt_path, transcript_path,
                   error, fail_calls, temp_file, cpuVars>>

\* endpoints.py lines 84-99, 102-104: process returned nothing.
FailNoOutput ==
    /\ pc = "return"
    /\ ppt_path = None /\ transcript_path = None
    /\ tasks' = fail_task(tasks, Job, "no_output")
    /\ status_log' = Logged(status_log, Job, FAILED)
    /\ reporter' = "transport"
    /\ fail_calls' = fail_calls + 1
    /\ pc' = "finally"
    /\ UNCHANGED l3_result
    /\ UNCHANGED <<genVars, l3Vars, flagVars, fileVars, batchVars, simVars, toolVars, shot, gen_finished,
                   processed_shots, pptx_saved, ppt_path, transcript_path,
                   error, complete_calls, temp_file, cpuVars>>

\* Variant of the exception handler that reports a fixed message instead
\* of the text of the exception.
FailExceptionGeneric ==
    /\ pc = "raised"
    /\ tasks' = fail_task(tasks, Job, "processing_failed")
    /\ status_log' = Logged(status_log, Job, FAILED)
    /\ reporter' = "transport"
    /\ fail_calls' = fail_calls + 1
    /\ pc' = "finally"
    /\ UNCHANGED l3_result
    /\ UNCHANGED <<genVars, l3Vars, flagVars, fileVars, batchVars, simVars, toolVars, shot,
                   gen_finished, processed_shots, pptx_saved, ppt_path,
                   transcript_path, error, complete_calls, temp_file,
                   cpuVars>>

\* endpoints.py lines 106-108: process raised.
FailException ==
    /\ pc = "raised"
    /\ tasks' = fail_task(tasks, Job, error)
    /\ status_log' = Logged(status_log, Job, FAILED)
    /\ reporter' = "transport"
    /\ fail_calls' = fail_calls + 1
    /\ pc' = "finally"
    /\ UNCHANGED l3_result
    /\ UNCHANGED <<genVars, l3Vars, flagVars, fileVars, batchVars, simVars, toolVars, shot, gen_finished,
                   processed_shots, pptx_saved, ppt_path, transcript_path,
                   error, complete_calls, temp_file, cpuVars>>

\* endpoints.py lines 109-115: secure_delete of the uploaded video, which
\* may give up.
Finally ==
    /\ pc = "finally"
    /\ \E removed \in BOOLEAN : temp_file' = ~removed
    /\ pc' = "done"
    /\ UNCHANGED l3_result
    /\ UNCHANGED <<genVars, l3Vars, flagVars, fileVars, batchVars, simVars, toolVars, regVars, shot, gen_finished,
                   processed_shots, pptx_saved, ppt_path, transcript_path,
                   error, complete_calls, fail_calls, cpuVars>>

\* ------------------------------------------------------------------------
\* Specification of one job: process() on a VideoService that holds its
\* frame_processor and ocr_deduper.  The registry holds the task as
\* run_video_task line 65 left it.
\* ------------------------------------------------------------------------
\* A task id no upload has used
NoJob == [pc |-> "none", enable_ppt_extraction |-> FALSE,
          enable_audio_transcription |-> FALSE, temp_file |-> FALSE,
          output_dirs |-> FALSE]

\* The locals of process, of the funnel and of run_video_task before the
\* first statement of process has run.
PipelineIdle ==
    /\ reporter = "transport"
    /\ pos_msec = 0
    /\ frame_idx = 0
    /\ sampled_count = 0
    /\ prev_tensor = NoTensor
    /\ scene_start_ts = 0
    /\ scene_best_ts = 0
    /\ scene_best_frame_idx = 0
    /\ scene_best_sharpness = -1
    /\ shot = NoShot
    /\ gen_finished = FALSE
    /\ last_saved_text = NoneText
    /\ processed_shots = 0
    /\ saved_count = 0
    /\ prs_slides = <<>>
    /\ retained_text = NoneText
    /\ retained_ts = -1
    /\ l3_result = NoResult
    /\ ppt_images = {}
    /\ pptx_saved = FALSE
    /\ ppt_path = None
    /\ transcript_path = None
    /\ cpu_frame_idx = 0
    /\ total_frames = 0
    /\ error = None
    /\ complete_calls = 0
    /\ fail_calls = 0
    /\ cropped_video = FALSE
    /\ debug_images = FALSE
    /\ caught = None

\* No batch capture is running
BatchIdle ==
    /\ timestamps = <<>>
    /\ results = <<>>
    /\ attempted = <<>>

\* No frame of the video is fixed in advance
NoVideo == <<>>

\* No call of calculate_similarity is in progress
SimilarityIdle ==
    /\ sim_text1 = NoneText
    /\ sim_text2 = NoneText
    /\ similarity = None

\* None of the functions that run outside a job has been called
NotInUse == [pc |-> "idle"]
ToolsIdle ==
    /\ funnel_pass = NotInUse
    /\ capture = NotInUse
    /\ crop_box = NotInUse
    /\ registry_call = NotInUse
    /\ deletion = NotInUse
    /\ keyframes = NotInUse
    /\ cropper = NotInUse

Init ==
    /\ pc = "process"
    /\ enable_ppt_extraction \in BOOLEAN
    /\ enable_audio_transcription \in BOOLEAN
    /\ enable_ppt_extraction \/ enable_audio_transcription
    /\ tasks = (Job :> update_task_progress((Job :> init_task), Job, 0,
                                            "waiting")[Job])
    /\ status_log = (Job :> <<PENDING, PROCESSING>>)
    /\ duration \in Durations
    /\ frame_sample_interval \in FrameSampleIntervals
    /\ temp_file = TRUE
    /\ jobs = (Job :> [pc |-> "running",
                       enable_ppt_extraction |-> enable_ppt_extraction,
                       enable_audio_transcription |->
                           enable_audio_transcription,
                       temp_file |-> TRUE,
                       output_dirs |-> TRUE])
    /\ response = 200
    /\ video = NoVideo
    /\ PipelineIdle
    /\ BatchIdle
    /\ SimilarityIdle
    /\ ToolsIdle

Next ==
    \/ LocateRegion
    \/ SkipExtraction
    \/ CropNvenc
    \/ CpuCropOpen
    \/ CpuCropReport
    \/ CpuCropDone
    \/ FunnelOpen
    \/ ReadSkipped
    \/ ReadFirst
    \/ ReadSceneChangeYield
    \/ ReadSceneChangeDiscard
    \/ ReadSameScene
    \/ EndOfStreamYield
    \/ EndOfStreamDrop
    \/ L3FrameMissing
    \/ L3Duplicate
    \/ L3Retain
    \/ FunnelFinish
    \/ Transcribe
    \/ CompleteJob
    \/ FailNoOutput
    \/ FailException
    \/ Finally

Spec == Init /\ [][Next]_vars


\* ------------------------------------------------------------------------
\* The transport as deployed (endpoints.py): upload_video creates tasks,
\* run_video_task runs each of them in the background.  Both are coroutines
\* of one event loop: a handler runs undisturbed up to its first await.
\* ------------------------------------------------------------------------
\* Everything the pipeline of one job owns
pipelineVars == <<pc, enable_ppt_extraction, enable_audio_transcription,
                  duration, frame_sample_interval, video, genVars, l3Vars,
                  l3_result, shot, gen_finished, processed_shots, resultVars,
                  cpuVars, reporter, fileVars, batchVars, simVars, toolVars>>

\* Keyword parameters of GPUFrameProcessor.__init__
FrameProcessorParams ==
    {"diff_threshold", "min_scene_duration", "sample_interval", "device"}

\* Keyword arguments VideoService.__init__ passes to it
FrameProcessorArgs == {"diff_threshold", "min_scene_duration", "sample_fps"}

\* A keyword argument the callee does not declare raises TypeError
VideoServiceRaises == ~(FrameProcessorArgs \subseteq FrameProcessorParams)

\* upload_video lines 158-165: neither module is requested, HTTP 400; no
\* task is created.
UploadRejected ==
    /\ response' = 400
    /\ UNCHANGED <<pipelineVars, tasks, status_log, jobs>>

\* upload_video lines 167-198: the task is created under a fresh id, the
\* upload stored in the temporary directory and run_video_task queued.
UploadVideo ==
    /\ \E task_id \in TaskIds \ DOMAIN tasks, ppt \in BOOLEAN,
          audio \in BOOLEAN :
          /\ ppt \/ audio
          /\ tasks' = (task_id :> init_task) @@ tasks
          /\ status_log' = Logged(status_log, task_id, PENDING)
          /\ jobs' = [jobs EXCEPT ![task_id] =
                         [pc |-> "queued",
                          enable_ppt_extraction |-> ppt,
                          enable_audio_transcription |-> audio,
                          temp_file |-> TRUE,
                          output_dirs |-> FALSE]]
    /\ response' = 200
    /\ UNCHANGED pipelineVars

\* upload_video lines 167-181: the task is created, storing the upload
\* fails: fail_task, HTTP 500; nothing is queued.  The temporary file may
\* have been created before the copy failed.
UploadSaveFails ==
    /\ \E task_id \in TaskIds \ DOMAIN tasks, partial \in BOOLEAN :
          /\ tasks' = fail_task((task_id :> init_task) @@ tasks, task_id,
                                "save_failed")
          /\ status_log' = Logged(Logged(status_log, task_id, PENDING),
                                  task_id, FAILED)
          /\ jobs' = [jobs EXCEPT ![task_id] =
                         [NoJob EXCEPT !.pc = "refused",
                                       !.temp_file = partial]]
    /\ response' = 500
    /\ UNCHANGED pipelineVars

\* run_video_task lines 64-71, 106-108: progress 0, then the constructor
\* of VideoService creates the output directories (video_service.py lines
\* 73-75) and raises at line 84; the handler of Exception calls fail_task.
RunVideoTask ==
    /\ \E task_id \in DOMAIN tasks :
          /\ jobs[task_id].pc = "queued"
          /\ VideoServiceRaises
          /\ tasks' = fail_task(update_task_progress(tasks, task_id, 0,
                                                     "waiting"),
                                task_id, "TypeError")
          /\ status_log' = Logged(Logged(status_log, task_id,
                                         ProgressAssigns(tasks, task_id)),
                                  task_id, FAILED)
          /\ jobs' = [jobs EXCEPT ![task_id].pc = "finally",
                                  ![task_id].output_dirs = TRUE]
    /\ UNCHANGED <<pipelineVars, response>>

\* run_video_task lines 109-115: secure_delete of the uploaded video, which
\* may give up.
CleanUp ==
    /\ \E task_id \in DOMAIN tasks, removed \in BOOLEAN :
          /\ jobs[task_id].pc = "finally"
          /\ jobs' = [jobs EXCEPT ![task_id].pc = "done",
                                  ![task_id].temp_file = ~removed]
    /\ UNCHANGED <<pipelineVars, tasks, status_log, response>>

InitJob ==
    /\ pc = "idle"
    /\ enable_ppt_extraction = FALSE
    /\ enable_audio_transcription = FALSE
    /\ tasks = <<>>
    /\ status_log = [i \in TaskIds |-> <<>>]
    /\ duration = 0
    /\ frame_sample_interval = 1
    /\ temp_file = FALSE
    /\ jobs = [i \in TaskIds |-> NoJob]
    /\ response = None
    /\ video = NoVideo
    /\ PipelineIdle
    /\ BatchIdle
    /\ SimilarityIdle
    /\ ToolsIdle

NextJob ==
    \/ UploadRejected
    \/ UploadVideo
    \/ UploadSaveFails
    \/ RunVideoTask
    \/ CleanUp

SpecJob == InitJob /\ [][NextJob]_vars

\* ------------------------------------------------------------------------
\* Batch capture of stills (ffmpeg_utils.extract_frames_batch), called with
\* a list of timestamps and no progress callback.
\* ------------------------------------------------------------------------
\* Timestamps (ticks) a caller may ask for
BatchTimes == {0, 3, 6}
TimestampLists == UNION {[1..n -> BatchTimes] : n \in 0..MaxBatch}

\* Everything extract_frames_batch does not touch
nonBatchVars == <<flagVars, regVars, genVars, l3Vars, l3_result, shot,
                  gen_finished, processed_shots, resultVars, cpuVars,
                  fileVars, simVars, toolVars>>

\* Line 425: slide_<i>_<ts>s.jpg in the output directory
OutputPath(index, ts) == <<index, ts>>

\* extract_frame_at_timestamp lines 364-386: the path when ffmpeg exited
\* with 0 and the file exists, None for a nonzero exit, a timeout, a
\* missing ffmpeg and any other exception.
extract_frame_at_timestamp(timestamp, output_path, extracted) ==
    IF extracted THEN output_path ELSE None

\* Variant of the loop body that gives up the batch at the first failed
\* extraction.
ExtractNextAbortsOnFailure ==
    /\ pc = "batch"
    /\ Len(attempted) < Len(timestamps)
    /\ \E extracted \in BOOLEAN :
          LET index == Len(attempted)
              ts == timestamps[index + 1]
              frame_path == extract_frame_at_timestamp(
                                ts, OutputPath(index, ts), extracted)
          IN  /\ attempted' = Append(attempted,
                                     [ts |-> ts, extracted |-> extracted])
              /\ results' = IF frame_path # None
                            THEN Append(results, frame_path) ELSE results
              /\ pc' = IF frame_path # None THEN pc ELSE "batch_done"
    /\ UNCHANGED <<timestamps, nonBatchVars>>

\* Lines 423-438: one iteration of the loop over enumerate(timestamps).
ExtractNext ==
    /\ pc = "batch"
    /\ Len(attempted) < Len(timestamps)
    /\ \E extracted \in BOOLEAN :
          LET index == Len(attempted)
              ts == timestamps[index + 1]
              frame_path == extract_frame_at_timestamp(
                                ts, OutputPath(index, ts), extracted)
          IN  /\ attempted' = Append(attempted,
                                     [ts |-> ts, extracted |-> extracted])
              /\ results' = IF frame_path # None
                            THEN Append(results, frame_path) ELSE results
    /\ UNCHANGED <<pc, timestamps, nonBatchVars>>

\* Lines 445-446: the list is exhausted, results is returned.
BatchReturn ==
    /\ pc = "batch"
    /\ Len(attempted) = Len(timestamps)
    /\ pc' = "batch_done"
    /\ UNCHANGED <<batchVars, nonBatchVars>>

InitBatch ==
    /\ pc = "batch"
    /\ enable_ppt_extraction = FALSE
    /\ enable_audio_transcription = FALSE
    /\ tasks = <<>>
    /\ status_log = [i \in TaskIds |-> <<>>]
    /\ duration = 0
    /\ frame_sample_interval = 1
    /\ temp_file = FALSE
    /\ jobs = [i \in TaskIds |-> NoJob]
    /\ response = None
    /\ video = NoVideo
    /\ PipelineIdle
    /\ SimilarityIdle
    /\ ToolsIdle
    /\ timestamps \in TimestampLists
    /\ results = <<>>
    /\ attempted = <<>>

NextBatch ==
    \/ ExtractNext
    \/ BatchReturn

SpecBatch == InitBatch /\ [][NextBatch]_vars

\* ------------------------------------------------------------------------
\* The funnel on a video whose frames are fixed before the capture opens:
\* _extract_ppt_gpu_pipeline from line 578 to the end of its loop, reading
\* the frames of video in order instead of arbitrary ones.
\* ------------------------------------------------------------------------
\* Frames a video may hold
MaxFrames == 5
Videos == UNION {[1..n -> Frames] : n \in 0..MaxFrames}

\* cap.read() returns True: the video holds a frame after those read
Delivers == frame_idx < Len(video)

\* The frame cap.read() returns
Delivered == video[frame_idx + 1]

\* cap.read() returns False: every frame has been read
Exhausted == frame_idx = Len(video)

VideoReadSkipped == Delivers /\ ReadSkipped

VideoReadFirst == Delivers /\ ReadFirst /\ prev_tensor' = Delivered

VideoReadSceneChangeYield ==
    Delivers /\ ReadSceneChangeYield /\ prev_tensor' = Delivered

VideoReadSceneChangeDiscard ==
    Delivers /\ ReadSceneChangeDiscard /\ prev_tensor' = Delivered

VideoReadSameScene == Delivers /\ ReadSameScene /\ prev_tensor' = Delivered

VideoEndOfStreamYield == Exhausted /\ EndOfStreamYield

VideoEndOfStreamDrop == Exhausted /\ EndOfStreamDrop

\* process() has located the region and cropped the video (lines 139-172):
\* the state in which line 174 calls _extract_ppt_gpu_pipeline.  The
\* container's duration is right, missing (0) or longer than what can be
\* decoded.
InitShots ==
    /\ pc = "funnel"
    /\ enable_ppt_extraction = TRUE
    /\ enable_audio_transcription = FALSE
    /\ tasks = (Job :> update_task_progress((Job :> init_task), Job, 10,
                                            "cropping")[Job])
    /\ status_log = (Job :> <<PENDING, PROCESSING>>)
    /\ reporter = "ppt"
    /\ video \in Videos
    /\ duration \in Durations \cup {Len(video)}
    /\ frame_sample_interval \in FrameSampleIntervals
    /\ temp_file = TRUE
    /\ jobs = (Job :> [pc |-> "running",
                       enable_ppt_extraction |-> TRUE,
                       enable_audio_transcription |-> FALSE,
                       temp_file |-> TRUE,
                       output_dirs |-> TRUE])
    /\ response = 200
    /\ cropped_video = TRUE
    /\ debug_images = TRUE
    /\ caught = None
    /\ pos_msec = 0
    /\ frame_idx = 0
    /\ sampled_count = 0
    /\ prev_tensor = NoTensor
    /\ scene_start_ts = 0
    /\ scene_best_ts = 0
    /\ scene_best_frame_idx = 0
    /\ scene_best_sharpness = -1
    /\ shot = NoShot
    /\ gen_finished = FALSE
    /\ last_saved_text = NoneText
    /\ processed_shots = 0
    /\ saved_count = 0
    /\ prs_slides = <<>>
    /\ retained_text = NoneText
    /\ retained_ts = -1
    /\ l3_result = NoResult
    /\ ppt_images = {}
    /\ pptx_saved = FALSE
    /\ ppt_path = None
    /\ transcript_path = None
    /\ cpu_frame_idx = 0
    /\ total_frames = 0
    /\ error = None
    /\ complete_calls = 0
    /\ fail_calls = 0
    /\ BatchIdle
    /\ SimilarityIdle
    /\ ToolsIdle

NextShots ==
    \/ FunnelOpen
    \/ VideoReadSkipped
    \/ VideoReadFirst
    \/ VideoReadSceneChangeYield
    \/ VideoReadSceneChangeDiscard
    \/ VideoReadSameScene
    \/ VideoEndOfStreamYield
    \/ VideoEndOfStreamDrop
    \/ L3FrameMissing
    \/ L3Duplicate
    \/ L3Retain

SpecShots == InitShots /\ [][NextShots]_vars

\* ------------------------------------------------------------------------
\* One call of OCRDeduper.calculate_similarity on a pair of texts
\* ------------------------------------------------------------------------
\* Texts the function is called with
MaxSimLen == 2
SimTexts == UNION {[1..n -> Alphabet] : n \in 0..MaxSimLen}

\* Everything calculate_similarity does not touch
nonSimVars == <<flagVars, regVars, genVars, l3Vars, l3_result, shot,
                gen_finished, processed_shots, resultVars, cpuVars, fileVars,
                batchVars, toolVars>>

\* Lines 233-247: the call returns
CalculateSimilarity ==
    /\ pc = "similarity"
    /\ similarity' = compute_similarity(sim_text1, sim_text2)
    /\ pc' = "similarity_done"
    /\ UNCHANGED <<sim_text1, sim_text2, nonSimVars>>

InitSimilarity ==
    /\ pc = "similarity"
    /\ enable_ppt_extraction = FALSE
    /\ enable_audio_transcription = FALSE
    /\ tasks = <<>>
    /\ status_log = [i \in TaskIds |-> <<>>]
    /\ duration = 0
    /\ frame_sample_interval = 1
    /\ temp_file = FALSE
    /\ jobs = [i \in TaskIds |-> NoJob]
    /\ response = None
    /\ video = NoVideo
    /\ PipelineIdle
    /\ BatchIdle
    /\ sim_text1 \in SimTexts
    /\ sim_text2 \in SimTexts
    /\ similarity = None
    /\ ToolsIdle

NextSimilarity == CalculateSimilarity

SpecSimilarity == InitSimilarity /\ [][NextSimilarity]_vars

\* ------------------------------------------------------------------------
\* Two jobs running side by side: run_video_task hands each process() to
\* the thread pool (endpoints.py lines 71-82), so the registry calls and the
\* L3 iterations of the two jobs interleave.  Each job holds its own
\* VideoService, hence its own OCRDeduper and output directories; the
\* registry is the module-level dict of task_manager.py.
\* ------------------------------------------------------------------------
PairIds == {1, 2}

\* BestShots a job hands to L3
MaxPairShots == 2

\* A job as upload_video queued it.  alone is the record the registry
\* calls of this job produce on a registry that holds no other task.
PairJob ==
    [pc |-> "queued", enable_ppt_extraction |-> TRUE,
     enable_audio_transcription |-> FALSE, temp_file |-> TRUE,
     output_dirs |-> FALSE, last_saved_text |-> NoneText,
     retained_text |-> NoneText, processed_shots |-> 0, saved_count |-> 0,
     alone |-> init_task]

\* update_task_progress called by the job task_id, whose record becomes job
PairReport(task_id, job, progress, message) ==
    /\ tasks' = update_task_progress(tasks, task_id, progress, message)
    /\ status_log' = Logged(status_log, task_id,
                            ProgressAssigns(tasks, task_id))
    /\ jobs' = [jobs EXCEPT ![task_id] =
                   [job EXCEPT !.alone =
                       update_task_progress((task_id :> job.alone), task_id,
                                            progress, message)[task_id]]]

\* run_video_task lines 64-71: progress 0, then the VideoService of the
\* job with its directories under OUTPUT_DIR / task_id and its OCRDeduper.
PairStart ==
    /\ \E task_id \in PairIds :
          /\ jobs[task_id].pc = "queued"
          /\ PairReport(task_id,
                        [jobs[task_id] EXCEPT !.pc = "process",
                                              !.output_dirs = TRUE,
                                              !.last_saved_text = NoneText],
                        0, "waiting")
    /\ UNCHANGED <<pipelineVars, response>>

\* process lines 139-157: progress 5 and the region is located
PairLocate ==
    /\ \E task_id \in PairIds :
          /\ jobs[task_id].pc = "process"
          /\ PairReport(task_id, [jobs[task_id] EXCEPT !.pc = "crop"],
                        5, "locating")
    /\ UNCHANGED <<pipelineVars, response>>

\* process lines 160-172 and _extract_ppt_gpu_pipeline lines 578-603:
\* progress 10, the video is cropped, the deduper of the job reset.
PairCrop ==
    /\ \E task_id \in PairIds :
          /\ jobs[task_id].pc = "crop"
          /\ PairReport(task_id,
                        [jobs[task_id] EXCEPT !.pc = "funnel",
                                              !.last_saved_text = reset,
                                              !.processed_shots = 0,
                                              !.saved_count = 0],
                        10, "cropping")
    /\ UNCHANGED <<pipelineVars, response>>

\* _extract_ppt_gpu_pipeline lines 604-619: a BestShot whose frame cannot
\* be read is skipped.
PairShotMissing ==
    /\ \E task_id \in PairIds :
          /\ jobs[task_id].pc = "funnel"
          /\ jobs[task_id].processed_shots < MaxPairShots
          /\ jobs' = [jobs EXCEPT ![task_id].processed_shots = @ + 1]
    /\ UNCHANGED <<pipelineVars, response, tasks, status_log>>

\* _extract_ppt_gpu_pipeline lines 604-642: progress, OCR and dedup of one
\* BestShot against the memory of the job; a new page is saved.
PairShot ==
    /\ \E task_id \in PairIds, text \in Texts :
          LET job == jobs[task_id]
              r == is_duplicate(job.last_saved_text, text)
              n == job.processed_shots + 1
          IN  /\ job.pc = "funnel"
              /\ job.processed_shots < MaxPairShots
              /\ PairReport(task_id,
                            IF r.dup
                            THEN [job EXCEPT !.processed_shots = n,
                                             !.last_saved_text = r.memory]
                            ELSE [job EXCEPT !.processed_shots = n,
                                             !.last_saved_text =
                                                 mark_as_saved(text),
                                             !.retained_text = text,
                                             !.saved_count = @ + 1],
                            L3Percent(n), "ocr")
    /\ UNCHANGED <<pipelineVars, response>>

\* _extract_ppt_gpu_pipeline lines 644-651 and run_video_task lines 84-115:
\* the loop is over; complete_task with slides, fail_task without; the
\* uploaded video is deleted, which may fail.
PairEnd ==
    /\ \E task_id \in PairIds, removed \in BOOLEAN :
          LET job == jobs[task_id]
              done == [job EXCEPT !.pc = "done", !.temp_file = ~removed]
          IN  /\ job.pc = "funnel"
              /\ IF job.saved_count > 0
                 THEN /\ tasks' = complete_task(tasks, task_id, "ppt_url",
                                                None)
                      /\ status_log' = Logged(status_log, task_id, COMPLETED)
                      /\ jobs' = [jobs EXCEPT ![task_id] =
                             [done EXCEPT !.alone =
                                 complete_task((task_id :> job.alone),
                                               task_id, "ppt_url",
                                               None)[task_id]]]
                 ELSE /\ tasks' = fail_task(tasks, task_id, "no_output")
                      /\ status_log' = Logged(status_log, task_id, FAILED)
                      /\ jobs' = [jobs EXCEPT ![task_id] =
                             [done EXCEPT !.alone =
                                 fail_task((task_id :> job.alone), task_id,
                                           "no_output")[task_id]]]
    /\ UNCHANGED <<pipelineVars, response>>

\* Both uploads have been accepted (upload_video lines 167-198)
InitPair ==
    /\ pc = "idle"
    /\ enable_ppt_extraction = FALSE
    /\ enable_audio_transcription = FALSE
    /\ tasks = [i \in PairIds |-> init_task]
    /\ status_log = [i \in PairIds |-> <<PENDING>>]
    /\ duration = 0
    /\ frame_sample_interval = 1
    /\ temp_file = FALSE
    /\ jobs = [i \in PairIds |-> PairJob]
    /\ response = 200
    /\ video = NoVideo
    /\ PipelineIdle
    /\ BatchIdle
    /\ SimilarityIdle
    /\ ToolsIdle

NextPair ==
    \/ PairStart
    \/ PairLocate
    \/ PairCrop
    \/ PairShotMissing
    \/ PairShot
    \/ PairEnd

SpecPair == InitPair /\ [][NextPair]_vars

\* ------------------------------------------------------------------------
\* Functions that run outside a job: each has a record of its own and a
\* specification of its own, in which no job runs.
\* ------------------------------------------------------------------------
\* Everything that belongs to a job
nonToolVars == <<pc, flagVars, regVars, genVars, l3Vars, l3_result, shot,
                 gen_finished, processed_shots, resultVars, cpuVars,
                 fileVars, batchVars, simVars>>

\* No upload has been made and no job runs
JobsIdle ==
    /\ pc = "idle"
    /\ enable_ppt_extraction = FALSE
    /\ enable_audio_transcription = FALSE
    /\ tasks = <<>>
    /\ status_log = [i \in TaskIds |-> <<>>]
    /\ duration = 0
    /\ frame_sample_interval = 1
    /\ temp_file = FALSE
    /\ jobs = [i \in TaskIds |-> NoJob]
    /\ response = None
    /\ video = NoVideo
    /\ PipelineIdle
    /\ BatchIdle
    /\ SimilarityIdle

\* ------------------------------------------------------------------------
\* A pass of _extract_ppt_gpu_pipeline on an OCRDeduper that an earlier
\* pass has used: the reset of line 585 and the L3 part of the loop (lines
\* 628-638) on the candidates that reach it.
\* ------------------------------------------------------------------------
MaxPassShots == 2
\* OCR texts of the candidates of a pass, in the order they are yielded
PassTexts == UNION {[1..n -> Texts] : n \in 0..MaxPassShots}

\* Lines 584-588: the deduper is reset and the counters cleared.  The
\* memory the pass finds is kept in found.
PassOpen ==
    /\ funnel_pass.pc = "open"
    /\ funnel_pass' = [funnel_pass EXCEPT
                          !.pc = "loop",
                          !.found = funnel_pass.last_saved_text,
                          !.last_saved_text = reset,
                          !.processed_shots = 0,
                          !.kept = <<>>]
    /\ UNCHANGED <<nonToolVars, capture, crop_box, registry_call, deletion,
                   keyframes, cropper>>

\* Lines 628-632: is_duplicate says the candidate repeats the memory.
PassDuplicate ==
    /\ funnel_pass.pc = "loop"
    /\ funnel_pass.processed_shots < Len(funnel_pass.texts)
    /\ LET text == funnel_pass.texts[funnel_pass.processed_shots + 1]
           r == is_duplicate(funnel_pass.last_saved_text, text)
       IN  /\ r.dup
           /\ funnel_pass' = [funnel_pass EXCEPT
                                 !.processed_shots = @ + 1,
                                 !.last_saved_text = r.memory]
    /\ UNCHANGED <<nonToolVars, capture, crop_box, registry_call, deletion,
                   keyframes, cropper>>

\* Lines 628-638: the candidate is new, it is saved and mark_as_saved
\* makes its text the memory.
PassRetain ==
    /\ funnel_pass.pc = "loop"
    /\ funnel_pass.processed_shots < Len(funnel_pass.texts)
    /\ LET text == funnel_pass.texts[funnel_pass.processed_shots + 1]
           r == is_duplicate(funnel_pass.last_saved_text, text)
       IN  /\ ~r.dup
           /\ funnel_pass' = [funnel_pass EXCEPT
                                 !.processed_shots = @ + 1,
                                 !.kept = Append(@, text),
                                 !.last_saved_text = mark_as_saved(text)]
    /\ UNCHANGED <<nonToolVars, capture, crop_box, registry_call, deletion,
                   keyframes, cropper>>

\* Lines 600-603, 644-651: the generator is exhausted, the loop is over.
PassEnd ==
    /\ funnel_pass.pc = "loop"
    /\ funnel_pass.processed_shots = Len(funnel_pass.texts)
    /\ funnel_pass' = [funnel_pass EXCEPT !.pc = "end"]
    /\ UNCHANGED <<nonToolVars, capture, crop_box, registry_call, deletion,
                   keyframes, cropper>>

\* _extract_ppt_gpu_pipeline is entered; the deduper holds what the pass
\* before left in it (None when there was none, or a text it retained).
InitPasses ==
    /\ JobsIdle
    /\ \E memory \in Texts \cup {NoneText}, texts \in PassTexts :
          funnel_pass = [pc |-> "open", texts |-> texts,
                         last_saved_text |-> memory, found |-> NoneText,
                         processed_shots |-> 0, kept |-> <<>>]
    /\ capture = NotInUse
    /\ crop_box = NotInUse
    /\ registry_call = NotInUse
    /\ deletion = NotInUse
    /\ keyframes = NotInUse
    /\ cropper = NotInUse

NextPasses ==
    \/ PassOpen
    \/ PassDuplicate
    \/ PassRetain
    \/ PassEnd

SpecPasses == InitPasses /\ [][NextPasses]_vars

\* ------------------------------------------------------------------------
\* The read of the original frame for a BestShot: lines 609-619 of
\* _extract_ppt_gpu_pipeline and GPUFrameProcessor.get_frame_at_index.  A
\* video is known by the decoder position (ticks) of each of its frames.
\* ------------------------------------------------------------------------
MaxStillFrames == 3
\* Positions of the frames of a video: the first at 0, then increasing
PositionLists ==
    {p \in UNION {[1..n -> 0..(MaxStillFrames + 1)] : n \in 1..MaxStillFrames} :
        /\ p[1] = 0
        /\ \A i \in 1..(Len(p) - 1) : p[i] < p[i + 1]}

\* get_frame_at_index(video_path, frame_index), lines 424-434: the capture
\* is set to frame number frame_index and read; None when there is no such
\* frame.  The frame is known by its position in the video.
NoFrame == -1
get_frame_at_index(positions, frame_index) ==
    IF frame_index < Len(positions) THEN positions[frame_index + 1]
    ELSE NoFrame

\* Lines 609-615: the frame is read and handed to L3.
CaptureRead ==
    /\ capture.pc = "shot"
    /\ LET original_frame ==
               get_frame_at_index(capture.original_video,
                                  capture.best_shot.frame_index)
       IN  /\ original_frame # NoFrame
           /\ capture' = [capture EXCEPT !.pc = "still",
                                         !.original_frame = original_frame]
    /\ UNCHANGED <<nonToolVars, funnel_pass, crop_box, registry_call,
                   deletion, keyframes, cropper>>

\* Lines 609-619: no frame is returned and the BestShot is skipped.
CaptureMissing ==
    /\ capture.pc = "shot"
    /\ get_frame_at_index(capture.original_video,
                          capture.best_shot.frame_index) = NoFrame
    /\ capture' = [capture EXCEPT !.pc = "skipped"]
    /\ UNCHANGED <<nonToolVars, funnel_pass, crop_box, registry_call,
                   deletion, keyframes, cropper>>

\* extract_best_shots has yielded a BestShot for a frame of the analysed
\* video: its timestamp is that frame's position and its frame_index that
\* frame's number (lines 302, 313-314, 326-336).
InitStill ==
    /\ JobsIdle
    /\ \E cropped \in PositionLists, original \in PositionLists :
          \E idx \in 0..(Len(cropped) - 1) :
             capture = [pc |-> "shot",
                        cropped_video |-> cropped,
                        original_video |-> original,
                        best_shot |-> [timestamp |-> cropped[idx + 1],
                                       frame_index |-> idx],
                        original_frame |-> NoFrame]
    /\ funnel_pass = NotInUse
    /\ crop_box = NotInUse
    /\ registry_call = NotInUse
    /\ deletion = NotInUse
    /\ keyframes = NotInUse
    /\ cropper = NotInUse

NextStill ==
    \/ CaptureRead
    \/ CaptureMissing

SpecStill == InitStill /\ [][NextStill]_vars

\* ------------------------------------------------------------------------
\* The crop filter each of the three ffmpeg callers builds from an ROI
\* (x, y, w, h): generate_lightweight_video, _crop_video_ffmpeg and
\* extract_frame_at_timestamp.
\* ------------------------------------------------------------------------
MaxRoi == 3
RoiOffsets == 0..MaxRoi
\* widths and heights: the small ones and those around a multiple of 16
RoiSizes == (0..MaxRoi) \cup {15, 16, 17, 33}

\* (v // m) * m for v >= 0
AlignDown(v, m) == (v \div m) * m

\* ffmpeg_utils.py lines 93-110: crop={w}:{h}:{x}:{y} of the lightweight
\* transcoder
lightweight_crop(x, y, w, h) ==
    [x |-> AlignDown(x, 2), y |-> AlignDown(y, 2),
     w |-> AlignDown(w, 2), h |-> AlignDown(h, 2)]

\* video_service.py lines 356-381: crop={w}:{h}:{x}:{y} of the main crop
main_crop(x, y, w, h) ==
    [x |-> AlignDown(x, 2), y |-> AlignDown(y, 2),
     w |-> Max(2, AlignDown(w, 16)), h |-> Max(2, AlignDown(h, 16))]

\* ffmpeg_utils.py lines 346-354: crop={w}:{h}:{x}:{y} of the
\* high-resolution capture, when a crop_box is given
capture_crop(x, y, w, h) ==
    [x |-> AlignDown(x, 2), y |-> AlignDown(y, 2),
     w |-> AlignDown(w, 2), h |-> AlignDown(h, 2)]

NoFilter == [x |-> -1, y |-> -1, w |-> -1, h |-> -1]

\* generate_lightweight_video builds its filter graph
GenerateLightweightVideo ==
    /\ crop_box.pc = "roi"
    /\ crop_box.lightweight = NoFilter
    /\ crop_box' = [crop_box EXCEPT !.lightweight =
                       lightweight_crop(crop_box.x, crop_box.y,
                                        crop_box.w, crop_box.h)]
    /\ UNCHANGED <<nonToolVars, funnel_pass, capture, registry_call,
                   deletion, keyframes, cropper>>

\* _crop_video_ffmpeg builds its command
CropVideoFfmpeg ==
    /\ crop_box.pc = "roi"
    /\ crop_box.main = NoFilter
    /\ crop_box' = [crop_box EXCEPT !.main =
                       main_crop(crop_box.x, crop_box.y,
                                 crop_box.w, crop_box.h)]
    /\ UNCHANGED <<nonToolVars, funnel_pass, capture, registry_call,
                   deletion, keyframes, cropper>>

\* extract_frame_at_timestamp builds its command
ExtractFrameAtTimestamp ==
    /\ crop_box.pc = "roi"
    /\ crop_box.still = NoFilter
    /\ crop_box' = [crop_box EXCEPT !.still =
                       capture_crop(crop_box.x, crop_box.y,
                                    crop_box.w, crop_box.h)]
    /\ UNCHANGED <<nonToolVars, funnel_pass, capture, registry_call,
                   deletion, keyframes, cropper>>

InitCrop ==
    /\ JobsIdle
    /\ \E x \in RoiOffsets, y \in RoiOffsets, w \in RoiSizes, h \in RoiSizes :
          crop_box = [pc |-> "roi", x |-> x, y |-> y, w |-> w, h |-> h,
                      lightweight |-> NoFilter, main |-> NoFilter,
                      still |-> NoFilter]
    /\ funnel_pass = NotInUse
    /\ capture = NotInUse
    /\ registry_call = NotInUse
    /\ deletion = NotInUse
    /\ keyframes = NotInUse
    /\ cropper = NotInUse

NextCrop ==
    \/ GenerateLightweightVideo
    \/ CropVideoFfmpeg
    \/ ExtractFrameAtTimestamp

SpecCrop == InitCrop /\ [][NextCrop]_vars

\* ------------------------------------------------------------------------
\* The task registry called from outside a job: init_task,
\* update_task_progress, complete_task and fail_task with any task id, one
\* that init_task has registered or not.
\* ------------------------------------------------------------------------
MaxRegistryIds == 2
RegistryIds == 1..MaxRegistryIds

\* The call that has just been made
Called(op, task_id) ==
    registry_call' = [pc |-> "registry", op |-> op, task_id |-> task_id]

\* init_task(task_id) for an id not yet in use (upload_video draws a new
\* uuid for every task)
RegistryInit ==
    \E task_id \in RegistryIds \ DOMAIN tasks :
        /\ tasks' = (task_id :> init_task) @@ tasks
        /\ Called("init_task", task_id)
        /\ UNCHANGED <<pc, flagVars, status_log, reporter, genVars, l3Vars,
                       l3_result, shot, gen_finished, processed_shots,
                       resultVars, cpuVars, fileVars, batchVars, simVars,
                       funnel_pass, capture, crop_box, deletion, keyframes,
                       cropper>>

\* update_task_progress(task_id, 50, message)
RegistryUpdate ==
    \E task_id \in RegistryIds :
        /\ tasks' = update_task_progress(tasks, task_id, 50, "working")
        /\ Called("update_task_progress", task_id)
        /\ UNCHANGED <<pc, flagVars, status_log, reporter, genVars, l3Vars,
                       l3_result, shot, gen_finished, processed_shots,
                       resultVars, cpuVars, fileVars, batchVars, simVars,
                       funnel_pass, capture, crop_box, deletion, keyframes,
                       cropper>>

\* complete_task(task_id, result_url, transcript_url)
RegistryComplete ==
    \E task_id \in RegistryIds, transcript_url \in {None, "transcript_url"} :
        /\ tasks' = complete_task(tasks, task_id, "ppt_url", transcript_url)
        /\ Called("complete_task", task_id)
        /\ UNCHANGED <<pc, flagVars, status_log, reporter, genVars, l3Vars,
                       l3_result, shot, gen_finished, processed_shots,
                       resultVars, cpuVars, fileVars, batchVars, simVars,
                       funnel_pass, capture, crop_box, deletion, keyframes,
                       cropper>>

\* fail_task(task_id, error_msg)
RegistryFail ==
    \E task_id \in RegistryIds :
        /\ tasks' = fail_task(tasks, task_id, "no_output")
        /\ Called("fail_task", task_id)
        /\ UNCHANGED <<pc, flagVars, status_log, reporter, genVars, l3Vars,
                       l3_result, shot, gen_finished, processed_shots,
                       resultVars, cpuVars, fileVars, batchVars, simVars,
                       funnel_pass, capture, crop_box, deletion, keyframes,
                       cropper>>

\* The module has been imported: tasks = {} (task_manager.py line 45)
InitRegistry ==
    /\ JobsIdle
    /\ registry_call = [pc |-> "registry", op |-> "none", task_id |-> 0]
    /\ funnel_pass = NotInUse
    /\ capture = NotInUse
    /\ crop_box = NotInUse
    /\ deletion = NotInUse
    /\ keyframes = NotInUse
    /\ cropper = NotInUse

NextRegistry ==
    \/ RegistryInit
    \/ RegistryUpdate
    \/ RegistryComplete
    \/ RegistryFail

SpecRegistry == InitRegistry /\ [][NextRegistry]_vars

\* ------------------------------------------------------------------------
\* files_service.secure_delete(path, max_retries, delay).  The path names
\* nothing, a regular file, a directory, or something else that exists (a
\* FIFO, a socket, a device node: Path.exists() is true for it,
\* Path.is_file() and Path.is_dir() are not).
\* ------------------------------------------------------------------------
MaxRetries == 3
PathKinds == {"absent", "file", "dir", "other"}

\* path.exists()
exists(kind) == kind # "absent"

\* Lines 45-47: the path does not exist, True is returned at once.
DeleteNothingThere ==
    /\ deletion.pc = "call"
    /\ ~exists(deletion.path)
    /\ deletion' = [deletion EXCEPT !.pc = "returned", !.returned = TRUE]
    /\ UNCHANGED <<nonToolVars, funnel_pass, capture, crop_box,
                   registry_call, keyframes, cropper>>

\* Lines 45, 49: the path exists, the loop is entered.
DeleteEnterLoop ==
    /\ deletion.pc = "call"
    /\ exists(deletion.path)
    /\ deletion' = [deletion EXCEPT !.pc = "loop"]
    /\ UNCHANGED <<nonToolVars, funnel_pass, capture, crop_box,
                   registry_call, keyframes, cropper>>

\* Lines 49-57: unlink / rmtree succeeds, True is returned.
DeleteAttemptSucceeds ==
    /\ deletion.pc = "loop"
    /\ deletion.i < deletion.max_retries
    /\ deletion.path \in {"file", "dir"}
    /\ deletion' = [deletion EXCEPT !.attempts = @ + 1,
                                    !.path = "absent",
                                    !.pc = "returned",
                                    !.returned = TRUE]
    /\ UNCHANGED <<nonToolVars, funnel_pass, capture, crop_box,
                   registry_call, keyframes, cropper>>

\* Lines 49-62: unlink / rmtree raises PermissionError; the coroutine
\* sleeps for delay.
DeleteAttemptPermissionError ==
    /\ deletion.pc = "loop"
    /\ deletion.i < deletion.max_retries
    /\ deletion.path \in {"file", "dir"}
    /\ deletion' = [deletion EXCEPT !.attempts = @ + 1,
                                    !.permission_errors = @ + 1,
                                    !.pc = "sleep"]
    /\ UNCHANGED <<nonToolVars, funnel_pass, capture, crop_box,
                   registry_call, keyframes, cropper>>

\* While the coroutine sleeps, whoever held the path may remove it.
OtherProcessRemoves ==
    /\ deletion.pc = "sleep"
    /\ exists(deletion.path)
    /\ deletion' = [deletion EXCEPT !.path = "absent"]
    /\ UNCHANGED <<nonToolVars, funnel_pass, capture, crop_box,
                   registry_call, keyframes, cropper>>

\* Line 62, 49: the sleep is over, the next iteration begins.
DeleteSleepOver ==
    /\ deletion.pc = "sleep"
    /\ deletion' = [deletion EXCEPT !.pc = "loop", !.i = @ + 1]
    /\ UNCHANGED <<nonToolVars, funnel_pass, capture, crop_box,
                   registry_call, keyframes, cropper>>

\* Lines 49-54, 64-66: unlink / rmtree raises another exception (rmtree
\* may have removed part of the tree); the loop is left.
DeleteAttemptOtherError ==
    /\ deletion.pc = "loop"
    /\ deletion.i < deletion.max_retries
    /\ deletion.path \in {"file", "dir"}
    /\ deletion' = [deletion EXCEPT !.attempts = @ + 1,
                                    !.other_errors = @ + 1,
                                    !.pc = "after"]
    /\ UNCHANGED <<nonToolVars, funnel_pass, capture, crop_box,
                   registry_call, keyframes, cropper>>

\* Lines 49-57: the path is neither a file nor a directory; neither branch
\* of the if runs and True is returned.
DeleteNeitherBranch ==
    /\ deletion.pc = "loop"
    /\ deletion.i < deletion.max_retries
    /\ deletion.path \notin {"file", "dir"}
    /\ deletion' = [deletion EXCEPT !.pc = "returned", !.returned = TRUE]
    /\ UNCHANGED <<nonToolVars, funnel_pass, capture, crop_box,
                   registry_call, keyframes, cropper>>

\* Line 49: range(max_retries) is exhausted.
DeleteLoopExhausted ==
    /\ deletion.pc = "loop"
    /\ deletion.i >= deletion.max_retries
    /\ deletion' = [deletion EXCEPT !.pc = "after"]
    /\ UNCHANGED <<nonToolVars, funnel_pass, capture, crop_box,
                   registry_call, keyframes, cropper>>

\* Lines 68-73: False when the path still exists, else True.
DeleteAfterLoop ==
    /\ deletion.pc = "after"
    /\ deletion' = [deletion EXCEPT !.pc = "returned",
                                    !.returned = ~exists(deletion.path)]
    /\ UNCHANGED <<nonToolVars, funnel_pass, capture, crop_box,
                   registry_call, keyframes, cropper>>

\* secure_delete has been called; found is what the path named then.
InitDelete ==
    /\ JobsIdle
    /\ \E kind \in PathKinds, max_retries \in 0..MaxRetries :
          deletion = [pc |-> "call", path |-> kind, found |-> kind,
                      max_retries |-> max_retries, i |-> 0, attempts |-> 0,
                      permission_errors |-> 0, other_errors |-> 0,
                      returned |-> None]
    /\ funnel_pass = NotInUse
    /\ capture = NotInUse
    /\ crop_box = NotInUse
    /\ registry_call = NotInUse
    /\ keyframes = NotInUse
    /\ cropper = NotInUse

NextDelete ==
    \/ DeleteNothingThere
    \/ DeleteEnterLoop
    \/ DeleteAttemptSucceeds
    \/ DeleteAttemptPermissionError
    \/ OtherProcessRemoves
    \/ DeleteSleepOver
    \/ DeleteAttemptOtherError
    \/ DeleteNeitherBranch
    \/ DeleteLoopExhausted
    \/ DeleteAfterLoop

SpecDelete == InitDelete /\ [][NextDelete]_vars

\* ------------------------------------------------------------------------
\* extract_ppt.extract_key_frames_persistent_reference: the loop over the
\* frames of the cropped video (lines 51-117).  A picture is a number; the
\* structural similarity of two pictures falls with their distance.
\* ------------------------------------------------------------------------
MaxPicture == 3        \* pictures are 0..MaxPicture
MaxKeyFrames == 5      \* frames the video holds at most
MaxStability == 2      \* largest stability_frames
Pictures == 0..MaxPicture
ssim_threshold == 900          \* 0.9, thousandths
stability_threshold == 995     \* 0.995, thousandths

\* skimage.metrics.structural_similarity, thousandths: 1 for the same
\* picture, a little less for a neighbouring one, far less otherwise
ssim(gray1, gray2) ==
    IF gray1 = gray2 THEN 1000
    ELSE IF Abs(gray1 - gray2) = 1 THEN 950 ELSE 0

\* Lines 84-104: the candidate and the counter after the sampled frame has
\* been compared with the reference
AfterComparison(k, frame) ==
    IF ssim(k.last_saved_gray, frame) < ssim_threshold
    THEN IF k.candidate_frame = NoFrame
         THEN [candidate_frame |-> frame, stable_counter |-> 1]
         ELSE IF ssim(k.candidate_frame, frame) > stability_threshold
              THEN [candidate_frame |-> k.candidate_frame,
                    stable_counter |-> k.stable_counter + 1]
              ELSE [candidate_frame |-> frame, stable_counter |-> 1]
    ELSE IF k.candidate_frame # NoFrame
         THEN [candidate_frame |-> NoFrame, stable_counter |-> 0]
         ELSE [candidate_frame |-> k.candidate_frame,
               stable_counter |-> k.stable_counter]

\* Line 107: the candidate is confirmed
Confirmed(k, c) ==
    c.candidate_frame # NoFrame /\ c.stable_counter >= k.stability_frames

\* cap.read() returns a frame (lines 61-66)
KeyFrameRead == keyframes.pc = "loop" /\
                keyframes.current_frame_index + 1 < MaxKeyFrames

\* Lines 68-69: the frame is not a sampling point.
KeySkip ==
    /\ KeyFrameRead
    /\ LET idx == keyframes.current_frame_index + 1
       IN  /\ idx > 0 /\ idx % keyframes.frame_interval # 0
           /\ keyframes' = [keyframes EXCEPT !.current_frame_index = idx]
    /\ UNCHANGED <<nonToolVars, funnel_pass, capture, crop_box,
                   registry_call, deletion, cropper>>

\* Lines 73-81: the first sampled frame is saved and becomes the
\* reference.
KeyFirst ==
    /\ KeyFrameRead
    /\ keyframes.last_saved_gray = NoFrame
    /\ \E frame \in Pictures :
          LET idx == keyframes.current_frame_index + 1
          IN  /\ ~(idx > 0 /\ idx % keyframes.frame_interval # 0)
              /\ keyframes' = [keyframes EXCEPT
                                  !.current_frame_index = idx,
                                  !.saved = Append(@, frame),
                                  !.saved_frame_count = @ + 1,
                                  !.last_saved_gray = frame]
    /\ UNCHANGED <<nonToolVars, funnel_pass, capture, crop_box,
                   registry_call, deletion, cropper>>

\* Variant of KeyPassed in which every sampled frame becomes the reference
\* (change detection against the frame before, not against the last key
\* frame).
KeyPassedMovesReference ==
    /\ KeyFrameRead
    /\ keyframes.last_saved_gray # NoFrame
    /\ \E frame \in Pictures :
          LET idx == keyframes.current_frame_index + 1
              c == AfterComparison(keyframes, frame)
          IN  /\ ~(idx > 0 /\ idx % keyframes.frame_interval # 0)
              /\ ~Confirmed(keyframes, c)
              /\ keyframes' = [keyframes EXCEPT
                                  !.current_frame_index = idx,
                                  !.last_saved_gray = frame,
                                  !.candidate_frame = c.candidate_frame,
                                  !.stable_counter = c.stable_counter]
    /\ UNCHANGED <<nonToolVars, funnel_pass, capture, crop_box,
                   registry_call, deletion, cropper>>

\* Lines 84-107: the sampled frame is compared; no candidate is confirmed.
KeyPassed ==
    /\ KeyFrameRead
    /\ keyframes.last_saved_gray # NoFrame
    /\ \E frame \in Pictures :
          LET idx == keyframes.current_frame_index + 1
              c == AfterComparison(keyframes, frame)
          IN  /\ ~(idx > 0 /\ idx % keyframes.frame_interval # 0)
              /\ ~Confirmed(keyframes, c)
              /\ keyframes' = [keyframes EXCEPT
                                  !.current_frame_index = idx,
                                  !.candidate_frame = c.candidate_frame,
                                  !.stable_counter = c.stable_counter]
    /\ UNCHANGED <<nonToolVars, funnel_pass, capture, crop_box,
                   registry_call, deletion, cropper>>

\* Lines 84-117: the sampled frame is compared and the candidate is
\* confirmed: it is saved and becomes the reference.
KeySaved ==
    /\ KeyFrameRead
    /\ keyframes.last_saved_gray # NoFrame
    /\ \E frame \in Pictures :
          LET idx == keyframes.current_frame_index + 1
              c == AfterComparison(keyframes, frame)
          IN  /\ ~(idx > 0 /\ idx % keyframes.frame_interval # 0)
              /\ Confirmed(keyframes, c)
              /\ keyframes' = [keyframes EXCEPT
                                  !.current_frame_index = idx,
                                  !.saved = Append(@, c.candidate_frame),
                                  !.saved_frame_count = @ + 1,
                                  !.last_saved_gray = c.candidate_frame,
                                  !.candidate_frame = NoFrame,
                                  !.stable_counter = 0]
    /\ UNCHANGED <<nonToolVars, funnel_pass, capture, crop_box,
                   registry_call, deletion, cropper>>

\* Lines 62-64: cap.read() returns no frame, the loop is left.
KeyEnd ==
    /\ keyframes.pc = "loop"
    /\ keyframes' = [keyframes EXCEPT !.pc = "end"]
    /\ UNCHANGED <<nonToolVars, funnel_pass, capture, crop_box,
                   registry_call, deletion, cropper>>

\* Lines 51-57: the locals before the loop
InitKeyframes ==
    /\ JobsIdle
    /\ \E frame_interval \in FrameSampleIntervals,
          stability_frames \in 1..MaxStability :
          keyframes = [pc |-> "loop",
                       frame_interval |-> frame_interval,
                       stability_frames |-> stability_frames,
                       last_saved_gray |-> NoFrame,
                       saved_frame_count |-> 0,
                       current_frame_index |-> -1,
                       candidate_frame |-> NoFrame,
                       stable_counter |-> 0,
                       saved |-> <<>>]
    /\ funnel_pass = NotInUse
    /\ capture = NotInUse
    /\ crop_box = NotInUse
    /\ registry_call = NotInUse
    /\ deletion = NotInUse
    /\ cropper = NotInUse

NextKeyframes ==
    \/ KeySkip
    \/ KeyFirst
    \/ KeyPassed
    \/ KeySaved
    \/ KeyEnd

SpecKeyframes == InitKeyframes /\ [][NextKeyframes]_vars

\* ------------------------------------------------------------------------
\* crop_ppt.process_video, run one or more times on the same input video
\* with the same output directory (main() runs it for every video of the
\* input directory each time the script is started).
\* ------------------------------------------------------------------------
MaxRuns == 2
SamplePoints == 3              \* len(sample_points), line 104
\* What a sample point of the input gives: no frame, a frame without a
\* slide region, a frame with one
SampleOutcomes == {"unreadable", "no_region", "region"}

\* Lines 85-88: the output directory exists, the path is returned.
CropperSkip ==
    /\ cropper.pc = "check"
    /\ cropper.output_video_dir
    /\ cropper' = [cropper EXCEPT !.pc = "returned",
                                  !.returned = "output_video_path"]
    /\ UNCHANGED <<nonToolVars, funnel_pass, capture, crop_box,
                   registry_call, deletion, keyframes>>

\* Lines 86, 90-91: the output directories are created.
CropperMakeDirs ==
    /\ cropper.pc = "check"
    /\ ~cropper.output_video_dir
    /\ cropper' = [cropper EXCEPT !.pc = "open",
                                  !.output_video_dir = TRUE]
    /\ UNCHANGED <<nonToolVars, funnel_pass, capture, crop_box,
                   registry_call, deletion, keyframes>>

\* Lines 94-97: the video cannot be opened, None is returned.
CropperOpenFails ==
    /\ cropper.pc = "open"
    /\ ~cropper.opens
    /\ cropper' = [cropper EXCEPT !.pc = "returned", !.returned = None]
    /\ UNCHANGED <<nonToolVars, funnel_pass, capture, crop_box,
                   registry_call, deletion, keyframes>>

\* Lines 94-104: the video is open, the search for the region begins.
CropperOpened ==
    /\ cropper.pc = "open"
    /\ cropper.opens
    /\ cropper' = [cropper EXCEPT !.pc = "locate", !.i = 0, !.bbox = FALSE]
    /\ UNCHANGED <<nonToolVars, funnel_pass, capture, crop_box,
                   registry_call, deletion, keyframes>>

\* Lines 105-118: one sample point: the frame cannot be read, or the
\* locator runs on it (and writes its debug images) and finds a region or
\* none.
CropperSample ==
    /\ cropper.pc = "locate"
    /\ cropper.i < SamplePoints
    /\ ~cropper.bbox
    /\ LET outcome == cropper.samples[cropper.i + 1]
       IN  cropper' = [cropper EXCEPT
                          !.i = @ + 1,
                          !.debug_images = @ \/ outcome # "unreadable",
                          !.bbox = outcome = "region"]
    /\ UNCHANGED <<nonToolVars, funnel_pass, capture, crop_box,
                   registry_call, deletion, keyframes>>

\* Lines 120-123: no sample point gave a region, None is returned.
CropperNoRegion ==
    /\ cropper.pc = "locate"
    /\ cropper.i = SamplePoints
    /\ ~cropper.bbox
    /\ cropper' = [cropper EXCEPT !.pc = "returned", !.returned = None]
    /\ UNCHANGED <<nonToolVars, funnel_pass, capture, crop_box,
                   registry_call, deletion, keyframes>>

\* Lines 125-153: the writer is created and every frame cropped and
\* written; the path is returned.  A writer that did not open (it is not
\* tested) writes no file.
CropperCrop ==
    /\ cropper.pc = "locate"
    /\ cropper.bbox
    /\ \E writer_opened \in BOOLEAN :
          cropper' = [cropper EXCEPT
                         !.pc = "returned",
                         !.output_video = @ \/ writer_opened,
                         !.returned = "output_video_path"]
    /\ UNCHANGED <<nonToolVars, funnel_pass, capture, crop_box,
                   registry_call, deletion, keyframes>>

\* process_video is called again for the same input (lines 183-184).
CropperAgain ==
    /\ cropper.pc = "returned"
    /\ cropper.run < MaxRuns
    /\ cropper' = [cropper EXCEPT !.pc = "check", !.run = @ + 1,
                                  !.returned = "pending",
                                  !.i = 0, !.bbox = FALSE]
    /\ UNCHANGED <<nonToolVars, funnel_pass, capture, crop_box,
                   registry_call, deletion, keyframes>>

\* The first run on an input for which nothing has been written yet
InitCropper ==
    /\ JobsIdle
    /\ \E opens \in BOOLEAN, samples \in [1..SamplePoints -> SampleOutcomes] :
          cropper = [pc |-> "check", run |-> 1, opens |-> opens,
                     samples |-> samples, output_video_dir |-> FALSE,
                     output_video |-> FALSE, debug_images |-> FALSE,
                     i |-> 0, bbox |-> FALSE, returned |-> "pending"]
    /\ funnel_pass = NotInUse
    /\ capture = NotInUse
    /\ crop_box = NotInUse
    /\ registry_call = NotInUse
    /\ deletion = NotInUse
    /\ keyframes = NotInUse

NextCropper ==
    \/ CropperSkip
    \/ CropperMakeDirs
    \/ CropperOpenFails
    \/ CropperOpened
    \/ CropperSample
    \/ CropperNoRegion
    \/ CropperCrop
    \/ CropperAgain

SpecCropper == InitCropper /\ [][NextCropper]_vars

\* ------------------------------------------------------------------------
\* Properties
\* ------------------------------------------------------------------------
\* The L3 consumer has just saved a candidate as a slide
Retains == saved_count' = saved_count + 1

\* The L3 consumer has just run is_duplicate on a candidate
ChecksCandidate ==
    processed_shots' = processed_shots + 1 /\ l3_result' # NoResult

\* The text the last retained slide carries, empty when there is none
Anchor == IF retained_text = NoneText THEN <<>> ELSE retained_text

\* C1: within one job the timestamps of the retained slides are strictly
\* increasing in emission order (the decoder's timestamps being strictly
\* increasing): every slide saved carries a timestamp greater than the one
\* saved before it.
C1_RetainedTimestampsIncrease ==
    [][Retains => retained_ts' > retained_ts]_vars

\* C1, reached: two slides have been retained in one job.
C1_TwoSlidesRetained == saved_count >= 2 /\ retained_ts > 0

\* C2: every BestShot handed out by extract_best_shots, mid-stream or at
\* the end of the stream, has scene_end_ts - scene_start_ts >=
\* min_scene_duration.
C2_YieldedSceneLongEnough ==
    pc = "l3" => shot.scene_end_ts - shot.scene_start_ts >= min_scene_duration

\* C3: a candidate whose OCR text is empty after trimming is never saved as
\* a slide and never becomes the dedup memory.
C3_BlankTextNeverKept ==
    ~IsBlank(retained_text) /\ ~IsBlank(last_saved_text)

\* C4: a candidate is discarded as a duplicate exactly when its similarity
\* to the text of the last retained slide strictly exceeds
\* similarity_threshold, and it is saved exactly when it is not; so two
\* slides retained one after the other have similarity <=
\* similarity_threshold, and a non-empty candidate that meets no retained
\* text, or only an empty one, is retained (the first non-empty candidate of
\* a job is such a candidate).
C4_DuplicateIffSimilar ==
    [][ChecksCandidate =>
          LET cand == l3_result'.text
              similar == ExceedsThreshold(calculate_similarity(Anchor, cand))
          IN  /\ l3_result'.dup <=> similar
              /\ Retains <=> ~similar
              /\ Retains => retained_text' = cand
              /\ (IsBlank(Anchor) /\ ~IsBlank(cand)) => Retains
       ]_vars

\* C4, reached: two slides retained and a third candidate discarded as a
\* duplicate of the second.
C4_DiscardAfterTwoRetained ==
    processed_shots >= 3 /\ saved_count = 2 /\ l3_result.dup

\* C5: the dedup memory is the text of the most recently retained
\* candidate, None while nothing has been retained; a discarded candidate
\* leaves it as it was.
C5_MemoryIsLastRetained == last_saved_text = retained_text

\* C5, reached: a candidate whose text differs from the memory has been
\* discarded after a slide was retained.
C5_DiscardLeftMemory ==
    /\ saved_count >= 1
    /\ l3_result.dup
    /\ l3_result.text # last_saved_text

\* C6: once the funnel pass is over the presentation has one slide per
\* retained candidate, the image files are slide 0 .. n-1 without gaps, and
\* the PPTX is written, and its path returned, exactly when n >= 1.
C6_SlidesMatchRetained ==
    pc \in {"transcribe", "return", "finally", "done"} =>
        /\ Len(prs_slides) = saved_count
        /\ \A i \in 1..Len(prs_slides) : prs_slides[i] = i - 1
        /\ ppt_images = 0..(saved_count - 1)
        /\ pptx_saved <=> saved_count >= 1
        /\ ppt_path # None <=> saved_count >= 1

\* C6, reached: the funnel pass ended with two slides and a saved PPTX.
C6_TwoSlidePptx ==
    pc = "return" /\ Len(prs_slides) >= 2 /\ pptx_saved

\* C7: the percent values written to the registry over the run of a job
\* never decrease and lie in 0..100.
C7_ProgressMonotone ==
    [][/\ tasks'[Job].progress >= tasks[Job].progress
       /\ tasks'[Job].progress \in 0..100]_vars

\* C8: with both modules enabled slide extraction reports within 0..85 and
\* transcription within 85..100; a module enabled alone reports within
\* 0..100.
C8_ProgressBands ==
    /\ reporter = "ppt" =>
          tasks[Job].progress \in
              0..(IF enable_audio_transcription THEN 85 ELSE 100)
    /\ reporter = "audio" =>
          tasks[Job].progress \in
              (IF enable_ppt_extraction THEN 85 ELSE 0)..100

\* C9: run_video_task leaves the task COMPLETED exactly when process
\* returned a PPTX path or a transcript path, FAILED in every other case,
\* and calls exactly one of complete_task / fail_task; before that it has
\* called neither.
C9_OutcomeMatchesDeliverable ==
    IF pc \in {"finally", "done"}
    THEN /\ complete_calls + fail_calls = 1
         /\ complete_calls = 1 <=>
               (error = None /\ (ppt_path # None \/ transcript_path # None))
         /\ tasks[Job].status =
               IF complete_calls = 1 THEN COMPLETED ELSE FAILED
    ELSE /\ complete_calls + fail_calls = 0
         /\ tasks[Job].status = PROCESSING

\* C9, reached: a job ended COMPLETED with a transcript and no PPTX.
C9_CompletedWithTranscriptOnly ==
    /\ pc = "done"
    /\ tasks[Job].status = COMPLETED
    /\ complete_calls = 1
    /\ ppt_path = None
    /\ transcript_path # None

\* The statuses of a task in the order pending, processing, then
\* completed or failed
ForwardOnly(history) ==
    /\ Len(history) <= 3
    /\ Len(history) >= 1 => history[1] = PENDING
    /\ Len(history) >= 2 => history[2] = PROCESSING
    /\ Len(history) >= 3 => history[3] \in {COMPLETED, FAILED}

\* C10: the status of every task only moves PENDING -> PROCESSING ->
\* COMPLETED or FAILED: never from PENDING straight to a terminal status,
\* never backwards, never away from a terminal status.
C10_StatusMovesForward ==
    \A task_id \in DOMAIN status_log : ForwardOnly(status_log[task_id])

\* C11: when the locator finds no rectangle, process raises at once: the
\* transcoder was not started (the progress stays at the locator's 5, no
\* encode left a file or a caught failure), the funnel and the capture did
\* not run, no slide image and no PPTX exist, transcription did not run
\* even when requested, and the handler fails the task exactly once with
\* the locator's message.
C11_NoRegionFailsAtOnce ==
    error = "roi_not_found" =>
        /\ pc \in {"raised", "finally", "done"}
        /\ tasks[Job].progress = 5
        /\ ~cropped_video /\ caught = None
        /\ ~gen_finished /\ processed_shots = 0 /\ saved_count = 0
        /\ ppt_images = {} /\ prs_slides = <<>>
        /\ ~pptx_saved /\ ppt_path = None
        /\ transcript_path = None /\ reporter # "audio"
        /\ complete_calls = 0
        /\ IF pc = "raised"
           THEN /\ fail_calls = 0
                /\ tasks[Job].status = PROCESSING
                /\ tasks[Job].error = None
           ELSE /\ fail_calls = 1
                /\ tasks[Job].status = FAILED
                /\ tasks[Job].error = "roi_not_found"
                /\ tasks[Job].message = "roi_not_found"

\* A job that requested both modules ended FAILED for the missing region
C11_FailedForMissingRegion ==
    /\ pc = "done"
    /\ error = "roi_not_found"
    /\ enable_ppt_extraction /\ enable_audio_transcription
    /\ tasks[Job].status = FAILED

\* C12: VideoService(output_guid) can be constructed for every task id, so
\* that no task run by run_video_task is failed by the TypeError of a
\* constructor call: once run_video_task has created the output
\* directories of a job, that job is not failed with "TypeError".
C12_ConstructionSucceeds ==
    \A task_id \in DOMAIN tasks :
        jobs[task_id].output_dirs => tasks[task_id].error # "TypeError"

\* C13: once process has returned or raised, the cropped video the funnel
\* analysed and the directory that holds it no longer exist.
C13_AnalysisVideoRemoved ==
    pc \in {"return", "raised", "finally", "done"} =>
        ~cropped_video /\ ~jobs[Job].output_dirs

\* C14: a job with slide extraction disabled never runs the locator, the
\* transcoder or the funnel (none of them reported progress, the generator
\* and the L3 loop are untouched), leaves no cropped video, debug image,
\* slide image or PPTX on disk, and its result names neither a PPTX nor a
\* cropped video.
C14_TranscriptionOnlyLeavesNoSlideOutput ==
    ~enable_ppt_extraction =>
        /\ reporter # "ppt"
        /\ ~cropped_video /\ ~debug_images /\ caught = None
        /\ ~gen_finished /\ shot = NoShot
        /\ processed_shots = 0 /\ saved_count = 0
        /\ ppt_images = {} /\ prs_slides = <<>> /\ ~pptx_saved
        /\ error = None
        /\ (pc \in {"return", "finally", "done"} =>
               /\ ProcessResult.ppt_file = None
               /\ ProcessResult.cropped_video = None)

\* process has returned a transcript from a job without slide extraction
C14_TranscriptionOnlyReturned ==
    /\ pc = "return"
    /\ ~enable_ppt_extraction
    /\ reporter = "audio"
    /\ ProcessResult.transcript_file = "txt"

\* C15: when both modules are requested and the funnel has saved a PPTX,
\* nothing transcription does (text, empty text, exception) takes the PPTX
\* out of the result or makes process raise: ppt_file stays the PPTX and
\* the job is completed with its download link, never failed.
C15_TranscriptionFailureIsolated ==
    (enable_ppt_extraction /\ enable_audio_transcription /\ pptx_saved) =>
        /\ pc \in {"transcribe", "return", "finally", "done"}
        /\ error = None
        /\ ProcessResult.ppt_file = "pptx"
        /\ fail_calls = 0
        /\ (pc \in {"finally", "done"} =>
               /\ complete_calls = 1
               /\ tasks[Job].status = COMPLETED
               /\ tasks[Job].result_url = "ppt_url")

\* A job with a PPTX whose transcription produced nothing was completed
C15_CompletedDespiteFailedTranscription ==
    /\ pc = "done"
    /\ enable_ppt_extraction /\ enable_audio_transcription
    /\ pptx_saved
    /\ transcript_path = None
    /\ tasks[Job].status = COMPLETED
    /\ tasks[Job].transcript_url = None

\* C16: the transcoding stage hands a video path to the funnel only if one
\* of its encode attempts succeeded, that is, only if the cropped video is
\* on disk.
C16_PathReturnedOnlyAfterSuccess == pc = "funnel" => cropped_video

\* C17: when ffmpeg is not installed (FileNotFoundError caught by
\* _crop_video_ffmpeg), the transcoding stage can only end by failing the
\* job with the environment-misconfiguration reason.
C17_MissingToolIsEnvironmentFailure ==
    [][(caught = "FileNotFoundError" /\ pc' \notin {"cpu_crop", "cpu_loop"})
          => (pc' = "raised" /\ error' = "environment_misconfigured")]_vars

\* The (0-based) positions of the extractions in att that succeeded, in
\* order, each with the output path extract_frames_batch gave it
RECURSIVE SuccessfulPaths(_)
SuccessfulPaths(att) ==
    IF att = <<>> THEN <<>>
    ELSE LET n == Len(att)
             front == SuccessfulPaths(SubSeq(att, 1, n - 1))
         IN  IF att[n].extracted
             THEN Append(front, OutputPath(n - 1, att[n].ts))
             ELSE front

\* C18: extract_frames_batch hands the timestamps to the extraction one
\* by one in list order, whatever the earlier extractions did; a failed
\* extraction does not end the batch (the function returns only when every
\* timestamp was tried once), and results holds the paths of exactly the
\* successful extractions, in that order.
C18_BatchTriesEveryTimestamp ==
    /\ Len(attempted) <= Len(timestamps)
    /\ \A k \in 1..Len(attempted) : attempted[k].ts = timestamps[k]
    /\ results = SuccessfulPaths(attempted)
    /\ (pc = "batch_done" => Len(attempted) = Len(timestamps))

\* A batch of three returned after its first extraction failed and a later
\* one succeeded
C18_ReturnedAfterEarlyFailure ==
    /\ pc = "batch_done"
    /\ Len(timestamps) = 3
    /\ ~attempted[1].extracted
    /\ attempted[3].extracted
    /\ Len(results) >= 1

\* C19: no frame of the original video is captured before the funnel has
\* produced its complete list: whenever the consumer has begun a capture
\* (processed_shots counts them), the generator has left its read loop.
C19_CaptureAfterFunnel == processed_shots > 0 => gen_finished

\* C20: every BestShot handed to the consumer lies within its scene:
\* scene_start_ts <= timestamp <= scene_end_ts.
C20_ShotWithinScene ==
    shot # NoShot =>
        /\ shot.scene_start_ts <= shot.timestamp
        /\ shot.timestamp <= shot.scene_end_ts

\* ------------------------------------------------------------------------
\* The sampled frames of a fixed video (SpecShots)
\* ------------------------------------------------------------------------
\* Timestamps of the frames of the video that extract_best_shots samples
\* (line 285): frame i sits at position i - 1.
SampleTimes ==
    {t \in 0..(Len(video) - 1) : t % frame_sample_interval = 0}

\* The frame at timestamp t
FrameAt(t) == video[t + 1]

\* Line 317 for the sample at t > 0: the MAD to the sample before it
DiffAt(t) ==
    compute_frame_difference(FrameAt(t - frame_sample_interval), FrameAt(t))

\* Every sampled frame differs from its predecessor by more than the
\* threshold, and there is one that has a predecessor
EverySampleDiffers ==
    /\ Cardinality(SampleTimes) >= 2
    /\ \A t \in SampleTimes \ {0} : DiffAt(t) > diff_threshold * NumPixels

\* C21: on a video of which every sampled frame differs from the one before
\* by more than diff_threshold, sampled at less than min_scene_duration, no
\* BestShot is yielded, the terminal scene included, and no slide is saved.
C21_RestlessVideoYieldsNothing ==
    EverySampleDiffers /\ frame_sample_interval < min_scene_duration
        => pc # "l3" /\ processed_shots = 0 /\ saved_count = 0

\* No sampled frame differs from the one before by more than the threshold
NoSampleDiffers ==
    \A t \in SampleTimes \ {0} : DiffAt(t) <= diff_threshold * NumPixels

\* C22: on a video that lasts min_scene_duration or longer and of which no
\* sampled frame differs from the one before by more than diff_threshold,
\* the end of the stream yields the one BestShot of the job, with a
\* timestamp inside the video.
C22_StillVideoYieldsOneShot ==
    [][pc = "read" /\ gen_finished' /\ NoSampleDiffers
           /\ Len(video) >= min_scene_duration
        => /\ processed_shots = 0
           /\ pc' = "l3"
           /\ shot'.timestamp \in 0..Len(video)]_vars

\* The fraction returned by calculate_similarity is 1.0 / is 0.0
IsOne(sim) == sim[1] = sim[2]
IsZero(sim) == sim[1] = 0

\* C23 as stated: for every text x, calculate_similarity(x, x) = 1.0 and
\* calculate_similarity(x, "") = 0.0 in either argument order, and every
\* result lies in [0, 1].
C23_SimilarityLawsEveryText ==
    pc = "similarity_done"
        => /\ sim_text1 = sim_text2 => IsOne(similarity)
           /\ sim_text1 = <<>> \/ sim_text2 = <<>> => IsZero(similarity)
           /\ 0 <= similarity[1] /\ similarity[1] <= similarity[2]

\* C23, amended: for every text x that is not empty,
\* calculate_similarity(x, x) = 1.0; for every text x, the empty one
\* included, calculate_similarity(x, "") = 0.0 in either argument order;
\* every result lies in [0, 1].
C23_SimilarityLaws ==
    pc = "similarity_done"
        => /\ sim_text1 = sim_text2 /\ sim_text1 # <<>> => IsOne(similarity)
           /\ sim_text1 = <<>> \/ sim_text2 = <<>> => IsZero(similarity)
           /\ 0 <= similarity[1] /\ similarity[1] <= similarity[2]

\* A text of the greatest length has been compared with itself
C23_ComparedWithItself ==
    /\ pc = "similarity_done"
    /\ sim_text1 = sim_text2
    /\ Len(sim_text1) = MaxSimLen
    /\ IsOne(similarity)

\* C24: run_video_task removes the uploaded temporary video on every exit
\* path, and not before process has returned or raised: the file is there
\* as long as the job has not reached the finally block, and it is gone
\* when the job is over.
C24_TempVideoRemovedAtTheEnd ==
    /\ pc \notin {"finally", "done"} => temp_file
    /\ pc = "done" => ~temp_file

\* C25: two jobs with distinct ids do not touch each other's state.  The
\* registry record of each job (progress, message, status, result) is, in
\* every interleaving, the record its own calls produce on a registry that
\* holds no other task; the dedup memory of each job is the text of the
\* slide that job saved last; its directories exist only once it started.
C25_JobsDoNotInterfere ==
    \A i \in PairIds :
        /\ tasks[i] = jobs[i].alone
        /\ jobs[i].pc = "funnel" /\ jobs[i].processed_shots > 0
               => jobs[i].last_saved_text = jobs[i].retained_text
        /\ jobs[i].output_dirs <=> jobs[i].pc # "queued"
        /\ jobs[i].pc = "done" =>
               (tasks[i].status = COMPLETED <=> jobs[i].saved_count > 0)

\* One job has finished without a slide while the other is in the middle
\* of its funnel with a slide saved.
C25_OneDoneOneInFunnel ==
    /\ jobs[1].pc = "funnel" /\ jobs[1].saved_count = 1
    /\ tasks[1].progress = 90
    /\ jobs[2].pc = "done" /\ tasks[2].status = FAILED
    /\ jobs[2].processed_shots = MaxPairShots

\* The sampled frames extract_best_shots has read so far
ReadSamples == {t \in SampleTimes : t < frame_idx}

\* The sample read last
LastSample == CHOOSE t \in ReadSamples : \A u \in ReadSamples : u <= t

\* The sample at t opens a scene: it is the first one, or it differs from
\* the sample before it by more than the threshold
Opens(t) == t = 0 \/ DiffAt(t) > diff_threshold * NumPixels

\* The start of the scene the sample at t lies in: the last sample up to
\* t that opens a scene
SceneStartOf(t) ==
    CHOOSE s \in SampleTimes :
        /\ s <= t /\ Opens(s)
        /\ \A u \in SampleTimes : s < u /\ u <= t => ~Opens(u)

\* C26: while extract_best_shots reads, the open scene starts at the last
\* sample that differed from its predecessor by more than diff_threshold
\* (at 0 if none did): scenes close at exactly those samples, start at the
\* timestamp of the closing frame, and hold no two consecutive samples
\* further apart than the threshold.  A BestShot yielded mid-stream spans
\* the scene before: from that scene's start to the start of the open one.
C26_ScenesSplitAtDifferences ==
    pc \in {"read", "l3"} /\ ~gen_finished /\ ReadSamples # {}
        => /\ scene_start_ts = SceneStartOf(LastSample)
           /\ pc = "l3" =>
                  /\ Opens(LastSample)
                  /\ shot.scene_end_ts = scene_start_ts
                  /\ shot.scene_start_ts =
                         SceneStartOf(LastSample - frame_sample_interval)

\* A scene that started at 0 and held two samples that differ by less than
\* the threshold has been closed by the fourth frame.
C26_SceneClosedAfterSmallChange ==
    /\ pc = "l3" /\ ~gen_finished
    /\ shot.scene_start_ts = 0
    /\ scene_start_ts = 3
    /\ \E t \in ReadSamples \ {0} :
           DiffAt(t) > 0 /\ DiffAt(t) <= diff_threshold * NumPixels

\* C27: when a sample closes a scene mid-stream, the BestShot of the closed
\* scene is yielded if the scene lasted min_scene_duration or longer and
\* nothing is yielded if it was shorter; either way the best-frame state
\* becomes that of the closing frame, which opens the next scene.
C27_ClosedSceneYieldsIffLongEnough ==
    [][pc = "read" /\ sampled_count' = sampled_count + 1
           /\ frame_idx > 0 /\ Opens(frame_idx)
        => LET closed == SceneStartOf(frame_idx - frame_sample_interval)
           IN  /\ pc' = "l3" <=> frame_idx - closed >= min_scene_duration
               /\ pc' = "l3" => /\ shot'.scene_start_ts = closed
                                /\ shot'.scene_end_ts = frame_idx
                                /\ shot'.timestamp < frame_idx
               /\ pc' # "l3" => pc' = "read" /\ shot' = shot
               /\ scene_start_ts' = frame_idx
               /\ scene_best_ts' = frame_idx
               /\ scene_best_frame_idx' = frame_idx
               /\ scene_best_sharpness' =
                      compute_laplacian_sharpness(FrameAt(frame_idx))]_vars

\* The first scene was discarded after one frame; the second scene has
\* been closed by the fifth frame and its BestShot is a frame of its own,
\* sharper than the frame that opened it.
C27_ShotAfterDiscardedScene ==
    /\ pc = "l3" /\ ~gen_finished
    /\ processed_shots = 0
    /\ shot.scene_start_ts = 1
    /\ shot.timestamp > shot.scene_start_ts
    /\ shot.sharpness_score > compute_laplacian_sharpness(FrameAt(1))
    /\ scene_best_ts = shot.scene_end_ts

\* The last sampled frame of the video
FinalSample == CHOOSE t \in SampleTimes : \A u \in SampleTimes : u <= t

\* C28: at the end of the stream the open scene is closed at the timestamp
\* of the last sampled frame, and its BestShot is yielded if and only if the
\* scene lasted min_scene_duration or longer up to that timestamp.
C28_TerminalSceneClosedAtLastSample ==
    [][pc = "read" /\ gen_finished' /\ SampleTimes # {}
        => LET start == SceneStartOf(FinalSample)
           IN  /\ pc' = "l3" <=> FinalSample - start >= min_scene_duration
               /\ pc' = "l3" => shot'.scene_end_ts = FinalSample]_vars

\* The sampled frames of the scene whose BestShot has just been yielded:
\* mid-stream the scene before the sample read last, which closed it; at
\* the end of the stream the scene of the last sample.
SceneOfShot ==
    IF gen_finished
    THEN {t \in SampleTimes : t >= SceneStartOf(FinalSample)}
    ELSE {t \in SampleTimes :
             /\ t >= SceneStartOf(LastSample - frame_sample_interval)
             /\ t < LastSample}

\* Line 305 for the sample at t
SharpnessAt(t) == compute_laplacian_sharpness(FrameAt(t))

\* C29: a BestShot carries the greatest sharpness among the sampled frames
\* of its scene, from the frame that opened the scene up to, but without,
\* the frame that closed it, and the timestamp of the earliest frame that
\* is that sharp.
C29_ShotIsEarliestSharpest ==
    pc = "l3" /\ SampleTimes # {}
        => /\ shot.timestamp \in SceneOfShot
           /\ shot.sharpness_score = SharpnessAt(shot.timestamp)
           /\ \A t \in SceneOfShot :
                  /\ SharpnessAt(t) <= shot.sharpness_score
                  /\ SharpnessAt(t) = shot.sharpness_score
                         => shot.timestamp <= t

\* The BestShot of a scene closed mid-stream is not the frame that opened
\* the scene, and a later frame of the scene is exactly as sharp.
C29_SharpestSeenTwice ==
    /\ pc = "l3" /\ ~gen_finished
    /\ shot.timestamp > shot.scene_start_ts
    /\ \E t \in SceneOfShot :
           t > shot.timestamp /\ SharpnessAt(t) = shot.sharpness_score

\* C30: every BestShot yielded refers to a frame that was sampled: its
\* sharpness is not negative and its timestamp is that of a sampled frame,
\* also when the video holds no frame that can be decoded.
C30_ShotIsASampledFrame ==
    pc = "l3" => shot.sharpness_score >= 0 /\ shot.timestamp \in SampleTimes

\* The texts the L3 loop retains out of texts when it starts from memory
RECURSIVE RetainedFrom(_, _)
RetainedFrom(memory, texts) ==
    IF texts = <<>> THEN <<>>
    ELSE LET r == is_duplicate(memory, Head(texts))
         IN  IF r.dup THEN RetainedFrom(r.memory, Tail(texts))
             ELSE <<Head(texts)>>
                  \o RetainedFrom(mark_as_saved(Head(texts)), Tail(texts))

\* C31: at the start of every funnel pass the dedup memory is empty, so
\* the slides a pass retains are those the L3 loop retains from an empty
\* memory, whatever an earlier pass left in the same OCRDeduper.
C31_PassStartsFromEmptyMemory ==
    /\ (funnel_pass.pc = "loop" /\ funnel_pass.processed_shots = 0)
           => funnel_pass.last_saved_text = NoneText
    /\ funnel_pass.pc = "end"
           => funnel_pass.kept = RetainedFrom(NoneText, funnel_pass.texts)

\* C31, reached: a pass that found the text of its first candidate in the
\* deduper has retained that candidate.
C31_RetainedWhatEarlierPassLeft ==
    /\ funnel_pass.pc = "end"
    /\ funnel_pass.found # NoneText
    /\ Len(funnel_pass.kept) >= 1
    /\ funnel_pass.found = funnel_pass.kept[1]
    /\ ~IsBlank(funnel_pass.found)

\* The generator has just read a frame of the analysed video
ReadsFrame == frame_idx' = frame_idx + 1

\* C32: at most one BestShot is in flight between L1+L2 and L3.  A
\* BestShot is in flight exactly while the consumer is at its L3 decision;
\* the generator reads a frame only when none is in flight, hands one out
\* only when none is in flight, and the one in flight goes away only by the
\* consumer finishing its iteration for it.
C32_OneShotInFlight ==
    [][/\ (shot' # NoShot) <=> (pc' = "l3")
       /\ ReadsFrame => (shot = NoShot /\ pc = "read")
       /\ (shot' # NoShot /\ shot' # shot) => shot = NoShot
       /\ (shot # NoShot /\ shot' # shot)
              => (shot' = NoShot /\ processed_shots' = processed_shots + 1)
      ]_vars

\* C32, reached: a second BestShot is in flight while the generator is
\* still inside its read loop, the first one having been decided.
C32_SecondShotInFlight ==
    /\ pc = "l3"
    /\ shot # NoShot
    /\ processed_shots = 1
    /\ ~gen_finished
    /\ frame_idx > shot.frame_index + 1

\* C33: the still saved for a retained slide is the frame of the original
\* video at the BestShot's timestamp, so it shows the instant of the
\* analysed frame also when the two videos number their frames
\* differently.
C33_StillShowsAnalysedInstant ==
    capture.pc = "still" =>
        capture.original_frame = capture.best_shot.timestamp

\* The parameters of a crop filter are even and its size at least 2 x 2
EvenAndPositive(f) ==
    /\ f.x % 2 = 0 /\ f.y % 2 = 0 /\ f.w % 2 = 0 /\ f.h % 2 = 0
    /\ f.w >= 2 /\ f.h >= 2

\* C34: for every ROI of non-negative integers the crop parameters the
\* lightweight transcoder, the main crop and the high-resolution capture
\* hand to ffmpeg are all even, with w >= 2 and h >= 2.
C34_CropParamsEvenAndPositive ==
    crop_box.pc = "roi" =>
        /\ crop_box.lightweight # NoFilter
               => EvenAndPositive(crop_box.lightweight)
        /\ crop_box.main # NoFilter => EvenAndPositive(crop_box.main)
        /\ crop_box.still # NoFilter => EvenAndPositive(crop_box.still)

\* C35: update_task_progress, complete_task and fail_task called with a
\* task id that is not in the registry leave the whole registry as it is
\* and create no record; called with an id that is in it they change the
\* record of that id only.
C35_CallTouchesOnlyItsTask ==
    [][LET op == registry_call'.op
           task_id == registry_call'.task_id
       IN  op \in {"update_task_progress", "complete_task", "fail_task"} =>
               IF task_id \notin DOMAIN tasks
               THEN tasks' = tasks
               ELSE /\ DOMAIN tasks' = DOMAIN tasks
                    /\ \A other \in DOMAIN tasks \ {task_id} :
                           tasks'[other] = tasks[other]
      ]_vars

\* C35, reached: fail_task has been called with an id that is not in the
\* registry while another task is registered and still being processed.
C35_FailedUnknownTask ==
    /\ registry_call.op = "fail_task"
    /\ registry_call.task_id \notin DOMAIN tasks
    /\ \E other \in DOMAIN tasks : tasks[other].status = PROCESSING

\* A record in a terminal status carries what that status promises
TerminalRecordSound(t) ==
    /\ t.status = COMPLETED =>
           /\ t.progress = 100
           /\ t.result_url # None \/ t.transcript_url # None
    /\ t.status = FAILED => t.error \notin {None, ""}

\* C36: in every registry state reached through the upload endpoint and
\* run_video_task a COMPLETED task has progress 100 and a result_url or a
\* transcript_url, a FAILED task has a non-empty error, and once a task is
\* COMPLETED or FAILED its progress and message are not written again.
C36_TerminalRecordsSoundAndFrozen ==
    [][\A task_id \in DOMAIN tasks' :
          /\ TerminalRecordSound(tasks'[task_id])
          /\ (task_id \in DOMAIN tasks
              /\ tasks[task_id].status \in {COMPLETED, FAILED})
                 => /\ tasks'[task_id].progress = tasks[task_id].progress
                    /\ tasks'[task_id].message = tasks[task_id].message
      ]_vars

\* C36, reached: the job has ended COMPLETED with both deliverables and
\* run_video_task has gone through its clean-up after that.
C36_CompletedThenCleanedUp ==
    /\ pc = "done"
    /\ tasks[Job].status = COMPLETED
    /\ tasks[Job].result_url # None
    /\ tasks[Job].transcript_url # None

\* C37: secure_delete makes at most max_retries deletion attempts, makes a
\* further attempt only after a PermissionError and none after any other
\* error, ends within max_retries iterations, returns True exactly when
\* the path does not exist at the return, and returns True without an
\* attempt when the path was absent at the call.
C37_SecureDeleteContract ==
    /\ deletion.attempts <= deletion.max_retries
    /\ deletion.i <= deletion.max_retries
    /\ deletion.attempts <= deletion.permission_errors + 1
    /\ deletion.other_errors >= 1 =>
           /\ deletion.other_errors = 1
           /\ deletion.pc \in {"after", "returned"}
    /\ deletion.pc = "returned" =>
           /\ deletion.returned = TRUE <=> ~exists(deletion.path)
           /\ ~exists(deletion.found) =>
                  (deletion.returned = TRUE /\ deletion.attempts = 0)

\* C38: the reference frame changes only when a key frame is saved, and
\* then to that key frame: the first sampled frame, or a candidate that
\* has been stable for stability_frames samples.  A sampled frame that is
\* not saved leaves the reference alone, and between iterations the
\* candidate is absent exactly when stable_counter is 0.
C38_ReferenceMovesOnlyOnSave ==
    [][/\ (keyframes'.candidate_frame = NoFrame)
              <=> (keyframes'.stable_counter = 0)
       /\ keyframes'.last_saved_gray # keyframes.last_saved_gray =>
              /\ keyframes'.saved_frame_count
                     = keyframes.saved_frame_count + 1
              /\ Len(keyframes'.saved) = Len(keyframes.saved) + 1
              /\ keyframes'.last_saved_gray
                     = keyframes'.saved[Len(keyframes'.saved)]
              /\ keyframes.last_saved_gray # NoFrame =>
                     IF keyframes'.last_saved_gray = keyframes.candidate_frame
                     THEN keyframes.stable_counter + 1
                              >= keyframes.stability_frames
                     ELSE keyframes.stability_frames <= 1
       /\ keyframes'.saved_frame_count = keyframes.saved_frame_count =>
              keyframes'.last_saved_gray = keyframes.last_saved_gray
      ]_vars

\* C38, reached: a second key frame, a candidate stable for two samples,
\* has been saved and is the reference, and at least one other sampled
\* frame has gone by without being saved.
C38_SecondKeyFrameAfterUnstableCandidate ==
    /\ keyframes.saved_frame_count = 2
    /\ keyframes.stability_frames = 2
    /\ keyframes.current_frame_index >= 3
    /\ keyframes.frame_interval = 1
    /\ keyframes.last_saved_gray = keyframes.saved[2]

\* C39: process_video returns a path only when the cropped video file has
\* been written; a run that fails returns None, and a later run on the
\* same input returns a path only if a cropped video exists at it.
C39_PathOnlyWithCroppedVideo ==
    cropper.pc = "returned" =>
        (cropper.returned # None => cropper.output_video)

====
